---- MODULE Spec2Model ----
(***************************************************************************)
(* A model of qLDPCsim's GF(2) sparse linear algebra                       *)
(* (math/sparse_matrix.rs, math/bit_linear_algebra.rs), its CSS code       *)
(* (code/css_code.rs) and its Pauli operators (code/paulis.rs,             *)
(* code/binary_symplectic.rs).                                             *)
(*                                                                         *)
(* Conventions.  A Vec<usize> is a sequence of naturals; the values are    *)
(* the 0-based indices of the Rust code, the positions are 1-based, so     *)
(* row r of a matrix is row_adj[r + 1].  A BitVec is a sequence of         *)
(* BOOLEAN.  A call that panics returns a record tagged "panic".           *)
(*                                                                         *)
(* The adjacency lists given to the constructors list each index at most   *)
(* once (only then does a list denote a binary matrix), in any order: no   *)
(* constructor sorts or rejects an unsorted list.                          *)
(***************************************************************************)
EXTENDS Integers, Sequences, FiniteSets, TLC

VARIABLES
    pc,     \* "init", or the name of the operation that produced ret
    self,   \* the receiver / first argument of that operation
    arg,    \* its second argument
    ret     \* what it returned: a record tagged by the kind of the result

vars == <<pc, self, arg, ret>>

(***************************************************************************)
(* Bounds of the model.                                                    *)
(***************************************************************************)
MaxDim  == 2     \* SpecNew, SpecMatrix, SpecMul: matrices of up to MaxDim x MaxDim
MaxRows == 2     \* SpecRank, SpecCssNew: matrices of up to MaxRows x MaxCols
MaxCols == 3
MaxChecks == 1   \* SpecCss: H_Z and H_X of up to MaxChecks x MaxQubits
MaxQubits == 2
MaxPauliQubits == 2   \* SpecPauli: Pauli operators on up to MaxPauliQubits qubits
MaxTripleQubits == 1  \* SpecPauliTriple: three Pauli operators on up to MaxTripleQubits qubits
MaxStrLen == 3   \* SpecParse: strings of up to MaxStrLen characters
MaxBpChecks == 2   \* SpecDecode: parity-check matrices of up to MaxBpChecks x MaxBits
MaxBits == 2
MaxIter == 2     \* SpecDecode: maximum_iterations of up to MaxIter
MaxMagnitude == 30000   \* numerators and denominators of up to MaxMagnitude
MaxFewChecks == 1   \* SpecZero, SpecMinSum: matrices of up to MaxFewChecks x MaxFewBits
MaxFewBits == 2
MaxCalls == 2    \* SpecReuse: up to MaxCalls decode calls on one decoder
MaxStabilizers == 2   \* SpecCssDecode: H_Z and H_X of up to MaxStabilizers rows
MaxCssQubits == 1       \* together and of up to MaxCssQubits columns
MaxExtra == 1    \* SpecLong: syndromes of up to MaxExtra bits more than the matrix has checks

(***************************************************************************)
(* Values.                                                                 *)
(***************************************************************************)
Panic(why) == [tag |-> "panic", why |-> why]
Matrix(m)  == [tag |-> "matrix", m |-> m]
Bits(v)    == [tag |-> "bits", v |-> v]
Num(n)     == [tag |-> "num", n |-> n]
Bool(b)    == [tag |-> "bool", b |-> b]
Nothing    == [tag |-> "none"]

\* Vec::contains
Contains(list, x) == \E k \in 1..Len(list) : list[k] = x

\* vec![vec![]; n]
EmptyAdj(n) == [i \in 1..n |-> <<>>]

(***************************************************************************)
(* BinarySparseMatrix::new: the two length assertions, then the scan of    *)
(* row_adj in row order and, within a row, in list order.  The first       *)
(* offending entry decides the panic.  col_adj is never scanned.           *)
(***************************************************************************)
RECURSIVE NewScan(_, _, _, _, _, _)
NewScan(n_rows, n_cols, row_adj, col_adj, row_idx, k) ==
    IF row_idx >= Len(row_adj) THEN "ok"
    ELSE IF k > Len(row_adj[row_idx + 1])
         THEN NewScan(n_rows, n_cols, row_adj, col_adj, row_idx + 1, 1)
    ELSE LET col_idx == row_adj[row_idx + 1][k] IN
         IF col_idx >= n_cols THEN "index_out_of_range"
         ELSE IF row_idx >= n_rows THEN "index_out_of_range"
         ELSE IF ~Contains(col_adj[col_idx + 1], row_idx) THEN "inconsistent"
         ELSE NewScan(n_rows, n_cols, row_adj, col_adj, row_idx, k + 1)

New(n_rows, n_cols, row_adj, col_adj) ==
    IF n_rows # Len(row_adj) THEN Panic("shape")
    ELSE IF n_cols # Len(col_adj) THEN Panic("shape")
    ELSE LET scan == NewScan(n_rows, n_cols, row_adj, col_adj, 0, 1) IN
         IF scan # "ok" THEN Panic(scan)
         ELSE Matrix([n_rows |-> n_rows, n_cols |-> n_cols,
                      row_adj |-> row_adj, col_adj |-> col_adj])

(***************************************************************************)
(* The loop of from_row_adj / from_col_adj: for each list i of src, in     *)
(* order, and each entry t of it, in order, push i onto adj[t].  An entry  *)
(* t >= Len(adj) is an out-of-bounds index (a Rust panic).                 *)
(***************************************************************************)
InRange(src, n) ==
    \A i \in 1..Len(src) : \A k \in 1..Len(src[i]) : src[i][k] < n

\* PushAll with the loop bound one short: the last list of src is not pushed
RECURSIVE PushAllSkipLast(_, _, _, _)
PushAllSkipLast(adj, src, i, k) ==
    IF i + 1 >= Len(src) THEN adj
    ELSE IF k > Len(src[i + 1]) THEN PushAllSkipLast(adj, src, i + 1, 1)
    ELSE LET t == src[i + 1][k] IN
         PushAllSkipLast([adj EXCEPT ![t + 1] = Append(@, i)], src, i, k + 1)

RECURSIVE PushAll(_, _, _, _)
PushAll(adj, src, i, k) ==
    IF i >= Len(src) THEN adj
    ELSE IF k > Len(src[i + 1]) THEN PushAll(adj, src, i + 1, 1)
    ELSE LET t == src[i + 1][k] IN
         PushAll([adj EXCEPT ![t + 1] = Append(@, i)], src, i, k + 1)

FromRowAdj(n_rows, n_cols, row_adj) ==
    IF ~InRange(row_adj, n_cols) THEN Panic("index_out_of_range")
    ELSE New(n_rows, n_cols, row_adj, PushAll(EmptyAdj(n_cols), row_adj, 0, 1))

FromColAdj(n_rows, n_cols, col_adj) ==
    IF ~InRange(col_adj, n_rows) THEN Panic("index_out_of_range")
    ELSE New(n_rows, n_cols, PushAll(EmptyAdj(n_rows), col_adj, 0, 1), col_adj)

Zeros(n_rows, n_cols) == New(n_rows, n_cols, EmptyAdj(n_rows), EmptyAdj(n_cols))

\* BinarySparseMatrix::transpose
Transpose(m) == FromColAdj(m.n_cols, m.n_rows, m.row_adj)

(***************************************************************************)
(* xor_neighbors: the merge of two index lists that drops an index met at  *)
(* the head of both.  i and j are the 0-based cursors of the Rust loop.    *)
(***************************************************************************)
\* the merge that keeps an index met at the head of both: a union, not an XOR
RECURSIVE UnionMerge(_, _, _, _, _)
UnionMerge(a, b, i, j, result) ==
    IF i < Len(a) /\ j < Len(b)
    THEN IF a[i + 1] = b[j + 1]
         THEN UnionMerge(a, b, i + 1, j + 1, Append(result, a[i + 1]))
         ELSE IF a[i + 1] < b[j + 1]
              THEN UnionMerge(a, b, i + 1, j, Append(result, a[i + 1]))
              ELSE UnionMerge(a, b, i, j + 1, Append(result, b[j + 1]))
    ELSE result \o SubSeq(a, i + 1, Len(a)) \o SubSeq(b, j + 1, Len(b))

XorKeepCommon(a, b) == UnionMerge(a, b, 0, 0, <<>>)

RECURSIVE XorMerge(_, _, _, _, _)
XorMerge(a, b, i, j, result) ==
    IF i < Len(a) /\ j < Len(b)
    THEN IF a[i + 1] = b[j + 1] THEN XorMerge(a, b, i + 1, j + 1, result)
         ELSE IF a[i + 1] < b[j + 1]
              THEN XorMerge(a, b, i + 1, j, Append(result, a[i + 1]))
              ELSE XorMerge(a, b, i, j + 1, Append(result, b[j + 1]))
    ELSE result \o SubSeq(a, i + 1, Len(a)) \o SubSeq(b, j + 1, Len(b))

xor_neighbors(a, b) == XorMerge(a, b, 0, 0, <<>>)

\* matrix.swap(i, j) on 0-based row indices
SwapRows(matrix, i, j) ==
    [matrix EXCEPT ![i + 1] = matrix[j + 1], ![j + 1] = matrix[i + 1]]

\* (rank..n_rows).find(|&row| matrix[row].contains(&col)); -1 for None
PivotRow(matrix, n_rows, rank, col) ==
    LET found == {row \in rank..(n_rows - 1) : Contains(matrix[row + 1], col)} IN
    IF found = {} THEN -1
    ELSE CHOOSE row \in found : \A other \in found : row <= other

\* the elimination loop "for row in 0..n_rows" of rank(), from row on
RECURSIVE Eliminate(_, _, _, _, _)
Eliminate(matrix, n_rows, rank, col, row) ==
    IF row >= n_rows THEN matrix
    ELSE IF row # rank /\ Contains(matrix[row + 1], col)
         THEN Eliminate([matrix EXCEPT
                            ![row + 1] = xor_neighbors(matrix[row + 1], matrix[rank + 1])],
                        n_rows, rank, col, row + 1)
         ELSE Eliminate(matrix, n_rows, rank, col, row + 1)

\* the column loop "for col in 0..n_cols" of rank(), from col on
RECURSIVE RankLoop(_, _, _, _, _)
RankLoop(matrix, n_rows, n_cols, rank, col) ==
    IF col >= n_cols THEN rank
    ELSE LET pivot == PivotRow(matrix, n_rows, rank, col) IN
         IF pivot = -1 THEN RankLoop(matrix, n_rows, n_cols, rank, col + 1)
         ELSE RankLoop(Eliminate(SwapRows(matrix, rank, pivot), n_rows, rank, col, 0),
                       n_rows, n_cols, rank + 1, col + 1)

\* BinarySparseMatrix::rank
Rank(m) == RankLoop(m.row_adj, m.n_rows, m.n_cols, 0, 0)

(***************************************************************************)
(* &BinarySparseMatrix * &BitVec: one parity flip per listed column whose  *)
(* bit of rhs is set.                                                      *)
(***************************************************************************)
\* RowParity with "parity |= rhs[col]" in place of the flip
RECURSIVE RowParityAny(_, _, _, _)
RowParityAny(neighbors, rhs, k, parity) ==
    IF k > Len(neighbors) THEN parity
    ELSE RowParityAny(neighbors, rhs, k + 1, parity \/ rhs[neighbors[k] + 1])

RECURSIVE RowParity(_, _, _, _)
RowParity(neighbors, rhs, k, parity) ==
    IF k > Len(neighbors) THEN parity
    ELSE RowParity(neighbors, rhs, k + 1,
                   IF rhs[neighbors[k] + 1] THEN ~parity ELSE parity)

MulVec(m, rhs) ==
    IF m.n_cols # Len(rhs) THEN Panic("shape")
    ELSE Bits([row \in 1..m.n_rows |-> RowParity(m.row_adj[row], rhs, 1, FALSE)])

(***************************************************************************)
(* &BinarySparseMatrix * &BinarySparseMatrix: entry (row_idx, col_idx) is  *)
(* one parity flip per k of self.row_adj[row_idx] that rhs.col_adj[col_idx]*)
(* contains; the set columns are pushed in ascending col_idx, and the      *)
(* result is built by from_row_adj.                                        *)
(***************************************************************************)
\* EntryParity with "parity |= contains" in place of the flip
RECURSIVE EntryParityAny(_, _, _, _)
EntryParityAny(neighbors, col, k, parity) ==
    IF k > Len(neighbors) THEN parity
    ELSE EntryParityAny(neighbors, col, k + 1, parity \/ Contains(col, neighbors[k]))

RECURSIVE EntryParity(_, _, _, _)
EntryParity(neighbors, col, k, parity) ==
    IF k > Len(neighbors) THEN parity
    ELSE EntryParity(neighbors, col, k + 1,
                     IF Contains(col, neighbors[k]) THEN ~parity ELSE parity)

RECURSIVE ResultNeighbors(_, _, _, _)
ResultNeighbors(neighbors, rhs, col_idx, result) ==
    IF col_idx >= rhs.n_cols THEN result
    ELSE ResultNeighbors(neighbors, rhs, col_idx + 1,
                         IF EntryParity(neighbors, rhs.col_adj[col_idx + 1], 1, FALSE)
                         THEN Append(result, col_idx) ELSE result)

MulMat(m, rhs) ==
    IF m.n_cols # rhs.n_rows THEN Panic("shape")
    ELSE FromRowAdj(m.n_rows, rhs.n_cols,
                    [row \in 1..m.n_rows |->
                        ResultNeighbors(m.row_adj[row], rhs, 0, <<>>)])

(***************************************************************************)
(* bit_linear_algebra: inner_product and the dense rank over rows of bits. *)
(***************************************************************************)
RECURSIVE InnerLoop(_, _, _, _)
InnerLoop(a, b, i, parity) ==
    IF i > Len(a) THEN parity
    ELSE InnerLoop(a, b, i + 1, IF a[i] /\ b[i] THEN ~parity ELSE parity)

inner_product(a, b) == InnerLoop(a, b, 1, FALSE)

\* BitVec ^= BitVec
BitXor(a, b) == [i \in 1..Len(a) |-> a[i] # b[i]]

DensePivot(mat, n, rank, col) ==
    LET found == {row \in rank..(n - 1) : mat[row + 1][col + 1]} IN
    IF found = {} THEN -1
    ELSE CHOOSE row \in found : \A other \in found : row <= other

RECURSIVE DenseEliminate(_, _, _, _, _)
DenseEliminate(mat, n, rank, col, row) ==
    IF row >= n THEN mat
    ELSE IF row # rank /\ mat[row + 1][col + 1]
         THEN DenseEliminate([mat EXCEPT ![row + 1] = BitXor(mat[row + 1], mat[rank + 1])],
                             n, rank, col, row + 1)
         ELSE DenseEliminate(mat, n, rank, col, row + 1)

RECURSIVE DenseRankLoop(_, _, _, _, _)
DenseRankLoop(mat, n, m, rank, col) ==
    IF col >= m THEN rank
    ELSE LET pivot == DensePivot(mat, n, rank, col) IN
         IF pivot = -1 THEN DenseRankLoop(mat, n, m, rank, col + 1)
         ELSE DenseRankLoop(DenseEliminate(SwapRows(mat, rank, pivot), n, rank, col, 0),
                            n, m, rank + 1, col + 1)

\* bit_linear_algebra::rank
DenseRank(bit_matrix) ==
    IF Len(bit_matrix) = 0 THEN 0
    ELSE DenseRankLoop(bit_matrix, Len(bit_matrix), Len(bit_matrix[1]), 0, 0)

(***************************************************************************)
(* CssCode.  from_parity_check_matrices(code_name, hz, hx): the product    *)
(* hx * hz.transpose() must equal zeros(hx.rows(), hz.rows()), then        *)
(* k = hz.cols() - hz.rank() - hx.rank() must be positive.  The            *)
(* subtraction is on usize: below zero it panics in a build with overflow  *)
(* checks and wraps to a large positive k in a build without them, so      *)
(* both outcomes are possible.  The result is the set of outcomes.         *)
(***************************************************************************)
Css(hz, hx) == [tag |-> "css", hz |-> hz, hx |-> hx]

\* CssCode::new
CssNew(hz, hx) == Css(hz, hx)

FromParityCheckMatrices(hz, hx) ==
    LET val == MulMat(hx, Transpose(hz).m) IN
    IF val.tag = "panic" THEN {Panic("shape")}
    ELSE IF val # Zeros(hx.n_rows, hz.n_rows) THEN {Panic("not_orthogonal")}
    ELSE LET k == hz.n_cols - Rank(hz) - Rank(hx) IN
         IF k < 0 THEN {Panic("overflow"), CssNew(hz, hx)}
         ELSE IF ~(k > 0) THEN {Panic("no_logical_qubits")}
         ELSE {CssNew(hz, hx)}

\* ErrorVector::new
ErrorVectorNew(x_part, z_part) ==
    IF Len(x_part) # Len(z_part) THEN Panic("shape")
    ELSE [tag |-> "error_vector", x_part |-> x_part, z_part |-> z_part]

\* Syndrome::new
SyndromeNew(z_syndrome, x_syndrome) ==
    [tag |-> "syndrome", z_syndrome |-> z_syndrome, x_syndrome |-> x_syndrome]

\* syndrome with each matrix applied to the part of its own name
SyndromeSameParts(code, error_vector) ==
    LET syndrome_z == MulVec(code.hz, error_vector.z_part)
        syndrome_x == MulVec(code.hx, error_vector.x_part)
    IN  IF syndrome_z.tag = "panic" \/ syndrome_x.tag = "panic" THEN Panic("shape")
        ELSE SyndromeNew(syndrome_z.v, syndrome_x.v)

\* CssCode::syndrome
Syndrome(code, error_vector) ==
    LET z_part == error_vector.z_part
        x_part == error_vector.x_part
        syndrome_z == MulVec(code.hz, x_part)
        syndrome_x == MulVec(code.hx, z_part)
    IN  IF syndrome_z.tag = "panic" \/ syndrome_x.tag = "panic" THEN Panic("shape")
        ELSE SyndromeNew(syndrome_z.v, syndrome_x.v)

(***************************************************************************)
(* Paulis and BinarySymplecticVector.  Paulis::new(num_qubits, phase,      *)
(* z_part, x_part) passes (z_part, x_part) to BinarySymplecticVector::new, *)
(* whose parameters are (x_part, z_part).                                  *)
(***************************************************************************)
Phases == {"One", "I", "MinusOne", "MinusI"}

BinarySymplecticVectorNew(x_part, z_part) ==
    IF Len(z_part) # Len(x_part) THEN Panic("shape")
    ELSE [tag |-> "bsv", x_part |-> x_part, z_part |-> z_part]

PaulisNew(num_qubits, phase, z_part, x_part) ==
    IF num_qubits # Len(z_part) \/ num_qubits # Len(x_part) THEN Panic("shape")
    ELSE [tag |-> "paulis", num_qubits |-> num_qubits, phase |-> phase,
          binary_symplectic_vector |-> BinarySymplecticVectorNew(z_part, x_part)]

\* symplectic_product with the second term left out
symplectic_product_one_term(v, other) == inner_product(v.z_part, other.x_part)

\* BinarySymplecticVector::symplectic_product
symplectic_product(v, other) ==
    LET z1 == v.z_part
        x1 == v.x_part
        z2 == other.z_part
        x2 == other.x_part
        term1 == inner_product(z1, x2)
        term2 == inner_product(x1, z2)
    IN  term1 # term2

\* Paulis::get_z_part, Paulis::get_x_part
get_z_part(a) == a.binary_symplectic_vector.z_part
get_x_part(a) == a.binary_symplectic_vector.x_part

\* impl Mul for Phase of stabilizer.rs
StabilizerPhaseMul(a, rhs) ==
    CASE a = "One" -> rhs
      [] rhs = "One" -> a
      [] a = "I" /\ rhs = "I" -> "MinusOne"
      [] a = "I" /\ rhs = "MinusI" -> "One"
      [] a = "MinusI" /\ rhs = "I" -> "One"
      [] a = "MinusI" /\ rhs = "MinusI" -> "MinusOne"
      [] a = "I" /\ rhs = "MinusOne" -> "MinusI"
      [] a = "MinusOne" /\ rhs = "I" -> "MinusI"
      [] a = "MinusI" /\ rhs = "MinusOne" -> "I"
      [] a = "MinusOne" /\ rhs = "MinusI" -> "I"
      [] a = "MinusOne" /\ rhs = "MinusOne" -> "One"

\* a table that squares and inverts as if every phase were its own inverse
PhaseMulOwnInverse(a, rhs) ==
    IF a = "One" THEN rhs
    ELSE IF rhs = "One" THEN a
    ELSE IF a = rhs THEN "One"
    ELSE IF "MinusOne" \notin {a, rhs} THEN "MinusOne"
    ELSE IF "I" \in {a, rhs} THEN "MinusI" ELSE "I"

\* impl Mul for Phase
PhaseMul(a, rhs) ==
    CASE a = "One" -> rhs
      [] rhs = "One" -> a
      [] a = "I" /\ rhs = "I" -> "MinusOne"
      [] a = "I" /\ rhs = "MinusI" -> "One"
      [] a = "MinusI" /\ rhs = "I" -> "One"
      [] a = "MinusI" /\ rhs = "MinusI" -> "MinusOne"
      [] a = "I" /\ rhs = "MinusOne" -> "MinusI"
      [] a = "MinusOne" /\ rhs = "I" -> "MinusI"
      [] a = "MinusI" /\ rhs = "MinusOne" -> "I"
      [] a = "MinusOne" /\ rhs = "MinusI" -> "I"
      [] a = "MinusOne" /\ rhs = "MinusOne" -> "One"

\* the match on (a_z, a_x, b_z, b_x) of the product: the phase after position i
PositionPhase(phase, a_z, a_x, b_z, b_x) ==
    IF (~a_z /\ ~a_x) \/ (~b_z /\ ~b_x) THEN phase
    ELSE IF a_z = b_z /\ a_x = b_x THEN phase
    ELSE IF \/ (~a_z /\ a_x /\ b_z /\ b_x)
            \/ (a_z /\ a_x /\ b_z /\ ~b_x)
            \/ (a_z /\ ~a_x /\ ~b_z /\ b_x)
         THEN PhaseMul(phase, "I")
    ELSE PhaseMul(phase, "MinusI")

\* the loop "for i in 0..self.num_qubits" of the product, from position i on
RECURSIVE PaulisMulLoop(_, _, _, _, _, _)
PaulisMulLoop(a, rhs, i, phase, z_part, x_part) ==
    IF i >= a.num_qubits THEN PaulisNew(a.num_qubits, phase, z_part, x_part)
    ELSE LET a_z == get_z_part(a)[i + 1]
             a_x == get_x_part(a)[i + 1]
             b_z == get_z_part(rhs)[i + 1]
             b_x == get_x_part(rhs)[i + 1]
         IN  PaulisMulLoop(a, rhs, i + 1, PositionPhase(phase, a_z, a_x, b_z, b_x),
                           Append(z_part, a_z # b_z), Append(x_part, a_x # b_x))

\* impl Mul<&Paulis> for &Paulis
PaulisMul(a, rhs) ==
    IF a.num_qubits # rhs.num_qubits THEN Panic("shape")
    ELSE PaulisMulLoop(a, rhs, 0, PhaseMul(a.phase, rhs.phase), <<>>, <<>>)

(***************************************************************************)
(* Paulis::from_stirng.  A string is a sequence of one-character strings.  *)
(***************************************************************************)
PauliLetters == {"I", "X", "Y", "Z"}

\* parse_phase: the phase, or "panic"
parse_phase(s) ==
    IF Len(s) = 0 THEN "panic"
    ELSE IF s[1] \in {"+", "-"}
         THEN IF Len(s) < 2 THEN "panic"
              ELSE IF s[2] \in PauliLetters
                   THEN (IF s[1] = "+" THEN "One" ELSE "MinusOne")
              ELSE IF s[2] = "i"
                   THEN (IF s[1] = "+" THEN "I" ELSE "MinusI")
              ELSE "panic"
    ELSE IF s[1] = "i" THEN "I"
    ELSE IF s[1] \in PauliLetters THEN "One"
    ELSE "panic"

\* parse_pauli_s: the loop over the characters, from character k on
RECURSIVE ParsePauliLoop(_, _, _, _)
ParsePauliLoop(s, k, z_part, x_part) ==
    IF k > Len(s) THEN [tag |-> "parts", z_part |-> z_part, x_part |-> x_part]
    ELSE IF s[k] \in {"+", "-", "i"} THEN ParsePauliLoop(s, k + 1, z_part, x_part)
    ELSE IF s[k] = "I"
         THEN ParsePauliLoop(s, k + 1, Append(z_part, FALSE), Append(x_part, FALSE))
    ELSE IF s[k] = "X"
         THEN ParsePauliLoop(s, k + 1, Append(z_part, FALSE), Append(x_part, TRUE))
    ELSE IF s[k] = "Y"
         THEN ParsePauliLoop(s, k + 1, Append(z_part, TRUE), Append(x_part, TRUE))
    ELSE IF s[k] = "Z"
         THEN ParsePauliLoop(s, k + 1, Append(z_part, TRUE), Append(x_part, FALSE))
    ELSE Panic("invalid_character")

parse_pauli_s(s) == ParsePauliLoop(s, 1, <<>>, <<>>)

from_stirng(s) ==
    LET phase == parse_phase(s) IN
    IF phase = "panic" THEN Panic("invalid_phase")
    ELSE LET parts == parse_pauli_s(s) IN
         IF parts.tag = "panic" THEN parts
         ELSE PaulisNew(Len(parts.z_part), phase, parts.z_part, parts.x_part)

\* Paulis::commutes
Commutes(a, other) ==
    IF a.num_qubits # other.num_qubits THEN Panic("shape")
    ELSE Bool(~symplectic_product(a.binary_symplectic_vector,
                                  other.binary_symplectic_vector))

(***************************************************************************)
(* The numbers of the BP decoder.  An f64 is modelled by an exact value    *)
(* [k, f]: f is a rational <<numerator, denominator>> and k is the         *)
(* rational coefficient of a constant that is above every sum of messages: *)
(* f64::MAX in min-sum, the log-likelihood ratio of the clamp bound        *)
(* 0.9999999 in serial product-sum.  In min-sum f is the log-likelihood    *)
(* ratio itself, in units of ln 3, and a value with k # 0 has f = 0, as    *)
(* f64::MAX + x = f64::MAX for every message x.  In product-sum f stands   *)
(* for the log-likelihood ratio x with tanh(x / 2) = f, so that the sum of *)
(* two ratios is (a + b) / (1 + a b), f = 1 and f = -1 are the infinite    *)
(* ratios and <<0, 0>> is NaN.                                             *)
(* Numerators and denominators are kept up to MaxMagnitude, so that every  *)
(* product fits a 32-bit integer: an operation on a longer number gives    *)
(* TooLong, and a pass of the decoder that meets one is left out of the    *)
(* model.                                                                  *)
(***************************************************************************)
RECURSIVE Gcd(_, _)
Gcd(a, b) == IF b = 0 THEN a ELSE Gcd(b, a % b)

RAbsInt(n) == IF n < 0 THEN -n ELSE n

\* the rational n / d in lowest terms with d > 0; <<0, 0>> (NaN) when d = 0
Rat(n, d) ==
    IF d = 0 THEN <<0, 0>>
    ELSE LET g == Gcd(RAbsInt(n), RAbsInt(d)) IN
         IF d < 0 THEN <<(-n) \div g, (-d) \div g>> ELSE <<n \div g, d \div g>>

RNan == <<0, 0>>
IsNan(a) == a[2] = 0

\* the result of an operation on a number too long to compute with
TooLong == <<0, -1>>
Long(a) == RAbsInt(a[1]) > MaxMagnitude \/ RAbsInt(a[2]) > MaxMagnitude
Fits(a, b) == ~Long(a) /\ ~Long(b)

RAdd(a, b) ==
    IF ~Fits(a, b) THEN TooLong
    ELSE IF IsNan(a) \/ IsNan(b) THEN RNan
    ELSE Rat(a[1] * b[2] + b[1] * a[2], a[2] * b[2])
RNeg(a) == <<-a[1], a[2]>>
RSub(a, b) == RAdd(a, RNeg(b))
RMul(a, b) ==
    IF ~Fits(a, b) THEN TooLong
    ELSE IF IsNan(a) \/ IsNan(b) THEN RNan
    ELSE Rat(a[1] * b[1], a[2] * b[2])
RAbs(a) == <<RAbsInt(a[1]), a[2]>>
\* a < b, false when either is NaN
RLess(a, b) == Fits(a, b) /\ ~IsNan(a) /\ ~IsNan(b) /\ a[1] * b[2] < b[1] * a[2]

\* tanh((x + y) / 2) from a = tanh(x / 2) and b = tanh(y / 2)
TanhAdd(a, b) ==
    IF ~Fits(a, b) THEN TooLong
    ELSE IF IsNan(a) \/ IsNan(b) THEN RNan
    ELSE Rat(a[1] * b[2] + b[1] * a[2], a[2] * b[2] + a[1] * b[1])

Val(k, f) == [k |-> k, f |-> f]
Fin(f) == Val(<<0, 1>>, f)
Zero == Fin(<<0, 1>>)
\* f64::MAX
FloatMax == Val(<<1, 1>>, <<0, 1>>)

\* in min-sum, f64::INFINITY and its negative: any multiple of f64::MAX beyond
\* f64::MAX itself
PosInf == Val(<<2, 1>>, <<0, 1>>)
NegInf == Val(<<-2, 1>>, <<0, 1>>)
IsInf(v) == v = PosInf \/ v = NegInf
NanVal == Val(<<0, 1>>, RNan)

\* f64::MAX absorbs a message added to it, and a multiple of f64::MAX beyond
\* f64::MAX overflows to an infinity
Absorb(bp_method, v) ==
    IF bp_method = "MinimumSum" /\ v.k[1] # 0
    THEN IF IsNan(v.f) THEN NanVal
         ELSE IF RLess(<<1, 1>>, v.k) THEN PosInf
         ELSE IF RLess(v.k, <<-1, 1>>) THEN NegInf
         ELSE Val(v.k, <<0, 1>>)
    ELSE v

\* a + b
VAdd(bp_method, a, b) ==
    IF bp_method = "MinimumSum" /\ (IsInf(a) \/ IsInf(b))
    THEN IF IsNan(a.f) \/ IsNan(b.f) THEN NanVal
         ELSE IF IsInf(a) /\ IsInf(b) /\ a # b THEN NanVal
         ELSE IF IsInf(a) THEN a ELSE b
    ELSE Absorb(bp_method,
                Val(RAdd(a.k, b.k),
                    IF bp_method = "MinimumSum" THEN RAdd(a.f, b.f)
                    ELSE TanhAdd(a.f, b.f)))

VNeg(a) == Val(RNeg(a.k), RNeg(a.f))
\* a - b
VSub(bp_method, a, b) == VAdd(bp_method, a, VNeg(b))
\* a.abs()
VAbs(a) == IF a.k[1] # 0 THEN Val(RAbs(a.k), RAbs(a.f)) ELSE Val(a.k, RAbs(a.f))
\* a < b
VLess(a, b) ==
    /\ ~IsNan(a.f) /\ ~IsNan(b.f)
    /\ \/ RLess(a.k, b.k)
       \/ a.k = b.k /\ RLess(a.f, b.f)
\* a <= 0.0
VLeqZero(a) ==
    /\ ~IsNan(a.f)
    /\ \/ a.k[1] < 0
       \/ a.k[1] = 0 /\ a.f[1] <= 0
\* a * c for a rational c, in min-sum
VScale(c, a) ==
    IF IsInf(a)
    THEN IF c[1] = 0 THEN NanVal
         ELSE IF (c[1] > 0) = (a = PosInf) THEN PosInf ELSE NegInf
    ELSE Absorb("MinimumSum", Val(RMul(c, a.k), RMul(c, a.f)))

\* (x / 2.0).tanh() of a product-sum value: 1 or -1 above the clamp bound
TanhHalf(a) == IF a.k[1] > 0 THEN <<1, 1>> ELSE IF a.k[1] < 0 THEN <<-1, 1>> ELSE a.f

\* term.max(-0.9999999).min(0.9999999) leaves term as it is: |term| <= 0.9999999
ClampNum == 9999999
ClampDen == 10000000
InsideClamp(term) ==
    /\ ~IsNan(term)
    /\ RAbsInt(term[1]) < term[2]
    /\ term[2] - RAbsInt(term[1]) > ((ClampDen - ClampNum) * term[2] - 1) \div ClampDen

(***************************************************************************)
(* BpSparse: the parity-check matrix with the two messages of every entry  *)
(* (row, col), kept here as two functions on the entries.  nonzero_cols    *)
(* and nonzero_rows are the adjacency lists of a row and of a column.      *)
(***************************************************************************)
nonzero_cols(m, row) == m.row_adj[row + 1]

nonzero_rows(m, col) == m.col_adj[col + 1]

Entries(m) ==
    {e \in (0..(m.n_rows - 1)) \X (0..(m.n_cols - 1)) :
        Contains(nonzero_cols(m, e[1]), e[2])}

BpSparseNew(parity_check_matrix) ==
    [parity_check_matrix |-> parity_check_matrix,
     bit_to_check_msg |-> [e \in Entries(parity_check_matrix) |-> Zero],
     check_to_bit_msg |-> [e \in Entries(parity_check_matrix) |-> Zero]]

\* vec![0; n]
ZeroBits(n) == [i \in 1..n |-> 0]

\* (0..n).collect()
Identity(n) == [i \in 1..n |-> i - 1]

(***************************************************************************)
(* BpDecoder::from_pcm.  ms_scaling_factor and the channel probabilities   *)
(* are rationals.                                                          *)
(***************************************************************************)
from_pcm(pcm, bp_method, schedule, max_iterations, ms_scaling_factor, random_serial_schedule, channel_probabilities) ==
    [pcm |-> BpSparseNew(pcm),
     bit_count |-> pcm.n_cols,
     bp_method |-> bp_method,
     schedule |-> schedule,
     maximum_iterations |-> max_iterations,
     ms_scaling_factor |-> ms_scaling_factor,
     random_serial_schedule |-> random_serial_schedule,
     channel_probabilities |-> channel_probabilities,
     initial_log_prob_ratios |-> [i \in 1..pcm.n_cols |-> Zero],
     log_prob_ratios |-> [i \in 1..pcm.n_cols |-> Zero],
     decoding |-> ZeroBits(pcm.n_cols),
     candidate_syndrome |-> ZeroBits(pcm.n_rows),
     converge |-> FALSE,
     iterations |-> 0,
     serial_schedule_order |-> Identity(pcm.n_cols)]

\* x.ln() in units of ln 3, for x a power of 3
RECURSIVE Ln3(_)
Ln3(x) ==
    IF x[1] = x[2] THEN 0
    ELSE IF x[1] > x[2] THEN 1 + Ln3(Rat(x[1], 3 * x[2]))
    ELSE Ln3(Rat(3 * x[1], x[2])) - 1

\* (p / (1.0 - p)).ln(), the ratio upside down
LogRatioInverted(bp_method, p) ==
    IF bp_method = "MinimumSum"
    THEN Fin(<<Ln3(Rat(p[1], p[2] - p[1])), 1>>)
    ELSE Fin(Rat(2 * p[1] - p[2], p[2]))

\* ((1.0 - p) / p).ln(): in product-sum, the tanh of its half is 1 - 2 p
LogRatio(bp_method, p) ==
    IF bp_method = "MinimumSum"
    THEN Fin(<<Ln3(Rat(p[2] - p[1], p[1])), 1>>)
    ELSE Fin(Rat(p[2] - 2 * p[1], p[2]))

initialise_log_domain_bp(d) ==
    LET llr == [i \in 1..d.bit_count |->
                    LogRatio(d.bp_method, d.channel_probabilities[i])] IN
    [d EXCEPT !.initial_log_prob_ratios = llr,
              !.pcm.bit_to_check_msg =
                  [e \in DOMAIN d.pcm.bit_to_check_msg |-> llr[e[2] + 1]]]

\* alpha from the iterations done so far, it - 1, in place of it
AlphaOfIterationsDone(ms_scaling_factor, it) ==
    IF ms_scaling_factor[1] = 0 THEN Rat(2 ^ (it - 1) - 1, 2 ^ (it - 1))
    ELSE ms_scaling_factor

\* alpha of iteration it: 1.0 - 2.0_f64.powf(-1.0 * it) or ms_scaling_factor
Alpha(ms_scaling_factor, it) ==
    IF ms_scaling_factor[1] = 0 THEN Rat(2 ^ it - 1, 2 ^ it) ELSE ms_scaling_factor

(***************************************************************************)
(* The check node update of bp_decode_parallel on row i.  msgs are the     *)
(* bit_to_check messages of the row in the order of iterate_row_mut.  The  *)
(* forward pass leaves in each entry the product (the minimum) of the      *)
(* messages before it, the backward pass combines it with the product (the *)
(* minimum) of the messages after it.                                      *)
(***************************************************************************)
RECURSIVE ProdBefore(_, _)
ProdBefore(msgs, k) ==
    IF k = 1 THEN <<1, 1>> ELSE RMul(ProdBefore(msgs, k - 1), TanhHalf(msgs[k - 1]))

RECURSIVE ProdAfter(_, _)
ProdAfter(msgs, k) ==
    IF k = Len(msgs) THEN <<1, 1>> ELSE RMul(ProdAfter(msgs, k + 1), TanhHalf(msgs[k + 1]))

\* message_sign * ((1.0 + x) / (1.0 - x)).ln()
ProductSumRow(msgs, syndrome_bit) ==
    [k \in 1..Len(msgs) |->
        LET x == RMul(ProdBefore(msgs, k), ProdAfter(msgs, k)) IN
        IF syndrome_bit # 0 THEN Fin(RNeg(x)) ELSE Fin(x)]

RECURSIVE MinBefore(_, _)
MinBefore(msgs, k) ==
    IF k = 1 THEN FloatMax
    ELSE LET temp == MinBefore(msgs, k - 1)
             abs_msg == VAbs(msgs[k - 1]) IN
         IF VLess(abs_msg, temp) THEN abs_msg ELSE temp

RECURSIVE MinAfter(_, _)
MinAfter(msgs, k) ==
    IF k = Len(msgs) THEN FloatMax
    ELSE LET temp == MinAfter(msgs, k + 1)
             abs_msg == VAbs(msgs[k + 1]) IN
         IF VLess(abs_msg, temp) THEN abs_msg ELSE temp

\* the number of messages <= 0.0
SignCount(msgs) == Cardinality({k \in 1..Len(msgs) : VLeqZero(msgs[k])})

\* the row update with the sign of the whole row on every edge
MinimumSumRowTotalSign(msgs, syndrome_bit, alpha) ==
    LET total_sgn == syndrome_bit + SignCount(msgs) IN
    [k \in 1..Len(msgs) |->
        LET left == MinBefore(msgs, k)
            right == MinAfter(msgs, k)
            least == IF VLess(right, left) THEN right ELSE left IN
        VScale(IF total_sgn % 2 = 0 THEN alpha ELSE RNeg(alpha), least)]

MinimumSumRow(msgs, syndrome_bit, alpha) ==
    LET total_sgn == syndrome_bit + SignCount(msgs) IN
    [k \in 1..Len(msgs) |->
        LET sgn == IF VLeqZero(msgs[k]) THEN total_sgn + 1 ELSE total_sgn
            left == MinBefore(msgs, k)
            right == MinAfter(msgs, k)
            least == IF VLess(right, left) THEN right ELSE left IN
        VScale(IF sgn % 2 = 0 THEN alpha ELSE RNeg(alpha), least)]

\* the position of x in list
IndexOf(list, x) == CHOOSE k \in 1..Len(list) : list[k] = x

\* syndrome[i] is out of bounds for a row the check node update reads it for
ParallelReadsPastEnd(d, syndrome) ==
    \E i \in 0..(d.pcm.parity_check_matrix.n_rows - 1) :
        /\ i >= Len(syndrome)
        /\ \/ d.bp_method = "MinimumSum"
           \/ nonzero_cols(d.pcm.parity_check_matrix, i) # <<>>

CheckNodeUpdate(d, syndrome, it) ==
    LET m == d.pcm.parity_check_matrix
        RowMsgs(i) == [k \in 1..Len(nonzero_cols(m, i)) |->
                          d.pcm.bit_to_check_msg[<<i, nonzero_cols(m, i)[k]>>]]
        RowOut(i) == IF d.bp_method = "ProductSum"
                     THEN ProductSumRow(RowMsgs(i), syndrome[i + 1])
                     ELSE MinimumSumRow(RowMsgs(i), syndrome[i + 1],
                                        Alpha(d.ms_scaling_factor, it)) IN
    [e \in DOMAIN d.pcm.check_to_bit_msg |->
        RowOut(e[1])[IndexOf(nonzero_cols(m, e[1]), e[2])]]

(***************************************************************************)
(* The bit node update: the sum of the prior and of the check_to_bit       *)
(* messages of a column, in the order of iterate_column_mut, each entry    *)
(* keeping the sum of what is before it; then, when the iteration did not  *)
(* converge, the reverse pass that adds the sum of what is after it.       *)
(***************************************************************************)
RECURSIVE SumBefore(_, _, _, _)
SumBefore(bp_method, first, msgs, k) ==
    IF k = 1 THEN first
    ELSE VAdd(bp_method, SumBefore(bp_method, first, msgs, k - 1), msgs[k - 1])

RECURSIVE SumAfter(_, _, _)
SumAfter(bp_method, msgs, k) ==
    IF k = Len(msgs) THEN Zero
    ELSE VAdd(bp_method, SumAfter(bp_method, msgs, k + 1), msgs[k + 1])

ColMsgs(m, check_to_bit_msg, i) ==
    [k \in 1..Len(nonzero_rows(m, i)) |-> check_to_bit_msg[<<nonzero_rows(m, i)[k], i>>]]

\* parity_check_matrix() * &decoding: the parity of the decided bits of each row
CandidateSyndrome(m, decoding) ==
    [row \in 1..m.n_rows |->
        Cardinality({k \in 1..Len(m.row_adj[row]) :
                        decoding[m.row_adj[row][k] + 1] = 1}) % 2]

\* equality of the candidate syndrome and the first bits of the syndrome
EqualOnPrefix(candidate_syndrome, syndrome) ==
    /\ Len(candidate_syndrome) <= Len(syndrome)
    /\ candidate_syndrome = SubSeq(syndrome, 1, Len(candidate_syndrome))

\* self.candidate_syndrome == *syndrome: equality of two Vec<u8>
Equal(candidate_syndrome, syndrome) == candidate_syndrome = syndrome

\* candidate_syndrome with no row set to 0
KeepRows(candidate_syndrome, check_count) == candidate_syndrome

\* candidate_syndrome[i] = 0 for the rows i of the check node update
ResetRows(candidate_syndrome, check_count) ==
    [r \in 1..Len(candidate_syndrome) |->
        IF r <= check_count THEN 0 ELSE candidate_syndrome[r]]

\* candidate_syndrome[entry.row_index] ^= 1 for the entries of column i
FlipRows(m, candidate_syndrome, i) ==
    [r \in 1..Len(candidate_syndrome) |->
        IF Contains(nonzero_rows(m, i), r - 1) THEN 1 - candidate_syndrome[r]
        ELSE candidate_syndrome[r]]

\* the flips of the decided bits from bit i on
RECURSIVE FlipDecided(_, _, _, _)
FlipDecided(m, decoding, candidate_syndrome, i) ==
    IF i >= Len(decoding) THEN candidate_syndrome
    ELSE FlipDecided(m, decoding,
                     IF decoding[i + 1] = 1 THEN FlipRows(m, candidate_syndrome, i)
                     ELSE candidate_syndrome,
                     i + 1)

\* one pass of the loop of bp_decode_parallel
ParallelIteration(d, syndrome, it) ==
    LET m == d.pcm.parity_check_matrix
        check_to_bit == CheckNodeUpdate(d, syndrome, it)
        Col(i) == ColMsgs(m, check_to_bit, i)
        llr == [i \in 1..d.bit_count |->
                   SumBefore(d.bp_method, d.initial_log_prob_ratios[i],
                             Col(i - 1), Len(Col(i - 1)) + 1)]
        decoding == [i \in 1..d.bit_count |-> IF VLeqZero(llr[i]) THEN 1 ELSE 0]
        candidate == FlipDecided(m, decoding, ResetRows(d.candidate_syndrome, m.n_rows), 0)
        converge == Equal(candidate, syndrome)
        forward == [e \in DOMAIN check_to_bit |->
                       SumBefore(d.bp_method, d.initial_log_prob_ratios[e[2] + 1],
                                 Col(e[2]), IndexOf(nonzero_rows(m, e[2]), e[1]))]
        backward == [e \in DOMAIN check_to_bit |->
                        VAdd(d.bp_method, forward[e],
                             SumAfter(d.bp_method, Col(e[2]),
                                      IndexOf(nonzero_rows(m, e[2]), e[1])))] IN
    [d EXCEPT !.pcm.check_to_bit_msg = check_to_bit,
              !.pcm.bit_to_check_msg = IF converge THEN forward ELSE backward,
              !.log_prob_ratios = llr,
              !.decoding = decoding,
              !.candidate_syndrome = candidate,
              !.converge = converge,
              !.iterations = it]

(***************************************************************************)
(* bp_decode_serial.  The schedule of an iteration: a shuffle of the order *)
(* kept from the iteration before when random_serial_schedule is set (any  *)
(* permutation is an outcome), for SerialRelative the stable sort of that  *)
(* order by decreasing reliability, and the order as it is otherwise.      *)
(***************************************************************************)
Shuffles(order) ==
    {shuffled \in [1..Len(order) -> 0..(Len(order) - 1)] :
        \A k \in 1..Len(order) : \E l \in 1..Len(order) : shuffled[l] = order[k]}

\* list with x written over the element it should come before
RECURSIVE InsertOver(_, _, _, _)
InsertOver(sorted, x, val, k) ==
    IF k > Len(sorted) \/ VLess(val[sorted[k] + 1], val[x + 1])
    THEN SubSeq(sorted, 1, k - 1) \o <<x>> \o SubSeq(sorted, k + 1, Len(sorted))
    ELSE InsertOver(sorted, x, val, k + 1)

\* list with x put behind the last element that does not come after x
RECURSIVE Insert(_, _, _, _)
Insert(sorted, x, val, k) ==
    IF k > Len(sorted) \/ VLess(val[sorted[k] + 1], val[x + 1])
    THEN SubSeq(sorted, 1, k - 1) \o <<x>> \o SubSeq(sorted, k, Len(sorted))
    ELSE Insert(sorted, x, val, k + 1)

\* sort_by(|a, b| val_b.partial_cmp(&val_a)): stable, greatest val first
RECURSIVE SortBy(_, _, _)
SortBy(order, val, k) ==
    IF k = 0 THEN <<>>
    ELSE Insert(SortBy(order, val, k - 1), order[k], val, 1)

Reliability(d, it) ==
    [i \in 1..d.bit_count |->
        IF it = 1 THEN VAbs(LogRatio(d.bp_method, d.channel_probabilities[i]))
        ELSE VAbs(d.log_prob_ratios[i])]

\* the orders the schedule update of iteration it can leave
ScheduleOrders(d, it) ==
    IF d.random_serial_schedule THEN Shuffles(d.serial_schedule_order)
    ELSE IF d.schedule = "SerialRelative"
    THEN {SortBy(d.serial_schedule_order, Reliability(d, it), d.bit_count)}
    ELSE {d.serial_schedule_order}

\* the messages of row check_idx from the bits other than bit_index
OtherMsgs(d, check_idx, bit_index) ==
    LET cols == nonzero_cols(d.pcm.parity_check_matrix, check_idx)
        others == SelectSeq(cols, LAMBDA col : col # bit_index) IN
    [k \in 1..Len(others) |-> d.pcm.bit_to_check_msg[<<check_idx, others[k]>>]]

\* term.max(-0.9999999).min(0.9999999), then ((1.0 + c) / (1.0 - c)).ln()
ClampedLog(term) ==
    IF term = TooLong \/ InsideClamp(term) THEN Fin(term)
    ELSE IF ~IsNan(term) /\ term[1] > 0 THEN Val(<<1, 1>>, <<0, 1>>)
    ELSE Val(<<-1, 1>>, <<0, 1>>)

\* the same without the sign of the syndrome bit
SerialProductSumUnsigned(msgs, syndrome_bit) ==
    ClampedLog(ProdBefore(msgs, Len(msgs) + 1))

SerialProductSum(msgs, syndrome_bit) ==
    LET prod == ProdBefore(msgs, Len(msgs) + 1)
        term == IF syndrome_bit # 0 THEN RNeg(prod) ELSE prod IN
    ClampedLog(term)

SerialMinimumSum(msgs, syndrome_bit, alpha) ==
    LET min_val == MinBefore(msgs, Len(msgs) + 1)
        sgn == syndrome_bit + SignCount(msgs) IN
    VScale(IF sgn % 2 = 0 THEN alpha ELSE RNeg(alpha), min_val)

\* steps A and B of the loop over the bits, for one bit
SerialBitUpdate(d, syndrome, alpha, bit_index) ==
    LET connected_checks == nonzero_rows(d.pcm.parity_check_matrix, bit_index)
        msgs == [k \in 1..Len(connected_checks) |->
                    LET check_idx == connected_checks[k]
                        others == OtherMsgs(d, check_idx, bit_index) IN
                    IF d.bp_method = "ProductSum"
                    THEN SerialProductSum(others, syndrome[check_idx + 1])
                    ELSE SerialMinimumSum(others, syndrome[check_idx + 1], alpha)]
        total_llr == SumBefore(d.bp_method,
                               LogRatio(d.bp_method, d.channel_probabilities[bit_index + 1]),
                               msgs, Len(msgs) + 1)
        Mine(e) == e[2] = bit_index
        Msg(e) == msgs[IndexOf(connected_checks, e[1])] IN
    [d EXCEPT !.log_prob_ratios[bit_index + 1] = total_llr,
              !.decoding[bit_index + 1] = IF VLeqZero(total_llr) THEN 1 ELSE 0,
              !.pcm.check_to_bit_msg =
                  [e \in DOMAIN @ |-> IF Mine(e) THEN Msg(e) ELSE @[e]],
              !.pcm.bit_to_check_msg =
                  [e \in DOMAIN @ |->
                      IF Mine(e) THEN VSub(d.bp_method, total_llr, Msg(e)) ELSE @[e]]]

\* the loop over the bits taken from the last bit of the order to the first
RECURSIVE SerialBitsBackwards(_, _, _, _, _)
SerialBitsBackwards(d, syndrome, alpha, order, k) ==
    IF k = 0 THEN d
    ELSE SerialBitUpdate(SerialBitsBackwards(d, syndrome, alpha, order, k - 1),
                         syndrome, alpha, order[Len(order) - k + 1])

RECURSIVE SerialBits(_, _, _, _, _)
SerialBits(d, syndrome, alpha, order, k) ==
    IF k = 0 THEN d
    ELSE SerialBitUpdate(SerialBits(d, syndrome, alpha, order, k - 1),
                         syndrome, alpha, order[k])

\* syndrome[check_idx] is out of bounds for a check of some bit
SerialReadsPastEnd(d, syndrome) ==
    \E i \in 0..(d.pcm.parity_check_matrix.n_rows - 1) :
        /\ i >= Len(syndrome)
        /\ nonzero_cols(d.pcm.parity_check_matrix, i) # <<>>

\* one pass of the loop of bp_decode_serial under the schedule order
SerialIteration(d, syndrome, it, order) ==
    LET scheduled == [d EXCEPT !.serial_schedule_order = order]
        updated == SerialBits(scheduled, syndrome, Alpha(d.ms_scaling_factor, it),
                              order, Len(order))
        candidate == CandidateSyndrome(d.pcm.parity_check_matrix, updated.decoding) IN
    [updated EXCEPT !.candidate_syndrome = candidate,
                    !.iterations = it,
                    !.converge = Equal(candidate, syndrome)]

(***************************************************************************)
(* decode, one pass of its loop at a time.  Entering sets converge to      *)
(* false and runs initialise_log_domain_bp; a pass is the parallel or the  *)
(* serial one by the schedule; the call returns the decision after the     *)
(* pass that converged or after pass maximum_iterations.                   *)
(***************************************************************************)
Enter(d) == initialise_log_domain_bp([d EXCEPT !.converge = FALSE])

ReadsPastEnd(d, syndrome) ==
    IF d.schedule = "Parallel" THEN ParallelReadsPastEnd(d, syndrome)
    ELSE SerialReadsPastEnd(d, syndrome)

\* the decoders one pass of the loop can leave
Iterations(d, syndrome, it) ==
    IF d.schedule = "Parallel" THEN {ParallelIteration(d, syndrome, it)}
    ELSE {SerialIteration(d, syndrome, it, order) : order \in ScheduleOrders(d, it)}

\* every number the decoder keeps is short enough to compute with
Short(v) ==
    /\ v.k # TooLong /\ v.f # TooLong
    /\ ~Long(v.k) /\ ~Long(v.f)

Representable(d) ==
    /\ \A e \in DOMAIN d.pcm.bit_to_check_msg :
           Short(d.pcm.bit_to_check_msg[e]) /\ Short(d.pcm.check_to_bit_msg[e])
    /\ \A i \in 1..d.bit_count : Short(d.log_prob_ratios[i])

\* how a call ends: with the decoder it leaves, or outside the model
Returned(d) == [tag |-> "returned", decoder |-> d]
LeftOut == [tag |-> "left_out"]

\* the loop from pass it on, for a schedule that is not random
RECURSIVE Loop(_, _, _)
Loop(d, syndrome, it) ==
    IF it > d.maximum_iterations THEN Returned(d)
    ELSE CHOOSE end \in
             {IF ~Representable(next) THEN LeftOut
              ELSE IF next.converge THEN Returned(next)
              ELSE Loop(next, syndrome, it + 1) :
                  \* n = n has the messages of a pass computed once
                  next \in {n \in Iterations(d, syndrome, it) : n = n}} : TRUE

\* decode on d run to its end
Decode(d, syndrome) ==
    IF d.maximum_iterations >= 1 /\ ReadsPastEnd(d, syndrome)
    THEN Panic("index_out_of_bounds")
    ELSE Loop(Enter(d), syndrome, 1)

(***************************************************************************)
(* BpDecoderCss: decoder_x on H_X with the rate of Z errors and decoder_z  *)
(* on H_Z with the rate of X errors, each rate on every qubit.  The two    *)
(* rates are the sums x_error_rate + y_error_rate and z_error_rate +       *)
(* y_error_rate of the channel.                                            *)
(***************************************************************************)
BpDecoderCssNew(code, error_rate_x, error_rate_z, bp_method, schedule, max_iterations, ms_scaling_factor, random_serial_schedule) ==
    LET channel_probabilities_x == [i \in 1..code.hz.n_cols |-> error_rate_x]
        channel_probabilities_z == [i \in 1..code.hz.n_cols |-> error_rate_z] IN
    [decoder_x |-> from_pcm(code.hx, bp_method, schedule, max_iterations,
                            ms_scaling_factor, random_serial_schedule,
                            channel_probabilities_z),
     decoder_z |-> from_pcm(code.hz, bp_method, schedule, max_iterations,
                            ms_scaling_factor, random_serial_schedule,
                            channel_probabilities_x)]

\* .map(|bit| if *bit { 1 } else { 0 }).collect::<Vec<u8>>()
ToU8(bits) == [i \in 1..Len(bits) |-> IF bits[i] THEN 1 ELSE 0]

\* the syndrome decoder_x is run on
SyndromeXOfZ(syndrome) == ToU8(syndrome.z_syndrome)

SyndromeX(syndrome) == ToU8(syndrome.x_syndrome)

\* the syndrome decoder_z is run on
SyndromeZ(syndrome) == ToU8(syndrome.z_syndrome)

\* ErrorVector::from_u8vec: the bit of an entry is set when the entry is not 0
from_u8vec(x_part, z_part) ==
    ErrorVectorNew([i \in 1..Len(x_part) |-> x_part[i] # 0],
                   [i \in 1..Len(z_part) |-> z_part[i] # 0])

(***************************************************************************)
(* Inputs.                                                                 *)
(***************************************************************************)
\* the index lists over 0..n-1 that list each index at most once, any order
IndexLists(n) ==
    UNION {{f \in [1..len -> 0..(n - 1)] :
                \A i, j \in 1..len : i # j => f[i] # f[j]} : len \in 0..n}

\* the ascending ones among them: one per set of indices
RECURSIVE AscendingList(_)
AscendingList(S) ==
    IF S = {} THEN <<>>
    ELSE LET top == CHOOSE x \in S : \A y \in S : y <= x IN
         Append(AscendingList(S \ {top}), top)

AscendingLists(n) == {AscendingList(S) : S \in SUBSET (0..(n - 1))}

BitVecs(n) == [1..n -> BOOLEAN]

\* what from_row_adj is given: a shape and one index list per row
RowAdjInputs(max_rows, max_cols) ==
    UNION {[n_rows : {r}, n_cols : {c}, adj : [1..r -> IndexLists(c)]] :
               r \in 0..max_rows, c \in 0..max_cols}

\* the same with every list ascending
AscendingInputs(max_rows, max_cols) ==
    UNION {[n_rows : {r}, n_cols : {c}, adj : [1..r -> AscendingLists(c)]] :
               r \in 0..max_rows, c \in 0..max_cols}

(***************************************************************************)
(* The calls on one matrix.  A constructor acts on the input of the        *)
(* initial state; transpose, rank and the products act on the matrix the   *)
(* last call returned, which becomes self.                                 *)
(***************************************************************************)
DoFromRowAdj ==
    /\ pc = "init"
    /\ pc' = "from_row_adj"
    /\ ret' = FromRowAdj(self.n_rows, self.n_cols, self.adj)
    /\ UNCHANGED <<self, arg>>

\* the same lists read as columns: the matrix has self.n_cols rows
DoFromColAdj ==
    /\ pc = "init"
    /\ pc' = "from_col_adj"
    /\ ret' = FromColAdj(self.n_cols, self.n_rows, self.adj)
    /\ UNCHANGED <<self, arg>>

DoZeros ==
    /\ pc = "init"
    /\ pc' = "zeros"
    /\ ret' = Zeros(self.n_rows, self.n_cols)
    /\ UNCHANGED <<self, arg>>

DoTranspose ==
    /\ ret.tag = "matrix"
    /\ pc' = "transpose"
    /\ self' = ret.m
    /\ arg' = Nothing
    /\ ret' = Transpose(ret.m)

DoRank ==
    /\ ret.tag = "matrix"
    /\ pc' = "rank"
    /\ self' = ret.m
    /\ arg' = Nothing
    /\ ret' = Num(Rank(ret.m))

\* m.transpose().rank()
DoRankOfTranspose ==
    /\ ret.tag = "matrix"
    /\ pc' = "rank_of_transpose"
    /\ self' = ret.m
    /\ arg' = Nothing
    /\ ret' = Num(Rank(Transpose(ret.m).m))

\* a vector of any length up to MaxDim: a wrong length panics
DoMulVec ==
    /\ ret.tag = "matrix"
    /\ \E len \in 0..MaxDim : \E v \in BitVecs(len) :
        /\ pc' = "mul_vec"
        /\ self' = ret.m
        /\ arg' = Bits(v)
        /\ ret' = MulVec(ret.m, v)

(***************************************************************************)
(* SpecMatrix: one matrix of up to MaxDim x MaxDim, its lists in any       *)
(* order.                                                                  *)
(***************************************************************************)
InitMatrix ==
    /\ pc = "init"
    /\ self \in RowAdjInputs(MaxDim, MaxDim)
    /\ arg = Nothing
    /\ ret = Nothing

NextMatrix ==
    \/ DoFromRowAdj
    \/ DoFromColAdj
    \/ DoZeros
    \/ DoTranspose
    \/ DoMulVec

SpecMatrix == InitMatrix /\ [][NextMatrix]_vars

(***************************************************************************)
(* SpecRank: rank() of a matrix of up to MaxRows x MaxCols built by        *)
(* from_row_adj from lists in any order, and of its transpose.             *)
(***************************************************************************)
InitRank ==
    /\ pc = "init"
    /\ self \in RowAdjInputs(MaxRows, MaxCols)
    /\ arg = Nothing
    /\ ret = Nothing

NextRank ==
    \/ DoFromRowAdj
    \/ DoRank
    \/ DoRankOfTranspose

SpecRank == InitRank /\ [][NextRank]_vars

(***************************************************************************)
(* SpecNew: BinarySparseMatrix::new on two adjacencies given               *)
(* independently: ascending lists over 0..MaxDim, so an index may be out   *)
(* of range, and shapes that may differ from the lengths.                  *)
(***************************************************************************)
NewInputs ==
    UNION {[n_rows : 0..MaxDim, n_cols : 0..MaxDim,
            row_adj : [1..r -> AscendingLists(MaxDim + 1)],
            col_adj : [1..c -> AscendingLists(MaxDim + 1)]] :
               r \in 0..MaxDim, c \in 0..MaxDim}

InitNew ==
    /\ pc = "init"
    /\ self \in NewInputs
    /\ arg = Nothing
    /\ ret = Nothing

DoNew ==
    /\ pc = "init"
    /\ pc' = "new"
    /\ ret' = New(self.n_rows, self.n_cols, self.row_adj, self.col_adj)
    /\ UNCHANGED <<self, arg>>

NextNew == DoNew

SpecNew == InitNew /\ [][NextNew]_vars

(***************************************************************************)
(* SpecMul: the constructors on ascending lists, transpose and the matrix  *)
(* product, whose right operand is any matrix from_row_adj builds from     *)
(* ascending lists (the product reads the rows of the left operand and     *)
(* the columns of the right one by membership only).                       *)
(***************************************************************************)
BuiltAscending(max_rows, max_cols) ==
    {FromRowAdj(i.n_rows, i.n_cols, i.adj).m : i \in AscendingInputs(max_rows, max_cols)}

MulOperands == BuiltAscending(MaxDim, MaxDim)

InitMul ==
    /\ pc = "init"
    /\ self \in AscendingInputs(MaxDim, MaxDim)
    /\ arg = Nothing
    /\ ret = Nothing

\* Operands of any shape: a left column count other than the right row count
\* panics.  The left operand is what from_row_adj returned: on ascending lists
\* from_col_adj, zeros, transpose and the product return matrices of that set.
DoMulMat ==
    /\ ret.tag = "matrix"
    /\ pc = "from_row_adj"
    /\ \E b \in MulOperands :
        /\ pc' = "mul_mat"
        /\ self' = ret.m
        /\ arg' = Matrix(b)
        /\ ret' = MulMat(ret.m, b)

NextMul ==
    \/ DoFromRowAdj
    \/ DoFromColAdj
    \/ DoZeros
    \/ DoTranspose
    \/ DoMulMat

SpecMul == InitMul /\ [][NextMul]_vars

(***************************************************************************)
(* The calls on a CSS code.  In the initial state self is H_Z and arg is   *)
(* H_X, both built by from_row_adj.                                        *)
(***************************************************************************)
DoFromParityCheckMatrices ==
    /\ pc = "init"
    /\ pc' = "from_parity_check_matrices"
    /\ \E outcome \in FromParityCheckMatrices(self, arg.m) : ret' = outcome
    /\ UNCHANGED <<self, arg>>

DoSyndrome ==
    /\ ret.tag = "css"
    /\ \E x_part, z_part \in BitVecs(ret.hz.n_cols) :
        /\ pc' = "syndrome"
        /\ self' = ret
        /\ arg' = ErrorVectorNew(x_part, z_part)
        /\ ret' = Syndrome(ret, ErrorVectorNew(x_part, z_part))

(***************************************************************************)
(* SpecCssNew: from_parity_check_matrices on every pair of matrices of up  *)
(* to MaxRows x MaxCols built from lists in any order.                     *)
(***************************************************************************)
BuiltAnyOrder(max_rows, max_cols) ==
    {FromRowAdj(i.n_rows, i.n_cols, i.adj).m : i \in RowAdjInputs(max_rows, max_cols)}

InitCssNew ==
    /\ pc = "init"
    /\ self \in BuiltAnyOrder(MaxRows, MaxCols)
    /\ \E hx \in BuiltAnyOrder(MaxRows, MaxCols) : arg = Matrix(hx)
    /\ ret = Nothing

NextCssNew == DoFromParityCheckMatrices

SpecCssNew == InitCssNew /\ [][NextCssNew]_vars

(***************************************************************************)
(* SpecCss: the codes from_parity_check_matrices accepts among the pairs   *)
(* of matrices of up to MaxChecks x MaxQubits, and their syndromes.        *)
(***************************************************************************)
InitCss ==
    /\ pc = "init"
    /\ self \in BuiltAscending(MaxChecks, MaxQubits)
    /\ \E hx \in BuiltAscending(MaxChecks, MaxQubits) : arg = Matrix(hx)
    /\ ret = Nothing

NextCss ==
    \/ DoFromParityCheckMatrices
    \/ DoSyndrome

SpecCss == InitCss /\ [][NextCss]_vars

(***************************************************************************)
(* SpecPauli: two Pauli operators built by Paulis::new, on up to           *)
(* MaxPauliQubits qubits each.                                             *)
(***************************************************************************)
PaulisInputs ==
    UNION {{PaulisNew(n, phase, z_part, x_part) :
                phase \in Phases, z_part \in BitVecs(n), x_part \in BitVecs(n)} :
               n \in 0..MaxPauliQubits}

InitPauli ==
    /\ pc = "init"
    /\ self \in PaulisInputs
    /\ arg \in PaulisInputs
    /\ ret = Nothing

DoCommutes ==
    /\ pc = "init"
    /\ pc' = "commutes"
    /\ ret' = Commutes(self, arg)
    /\ UNCHANGED <<self, arg>>

DoPaulisMul ==
    /\ pc = "init"
    /\ pc' = "mul"
    /\ ret' = PaulisMul(self, arg)
    /\ UNCHANGED <<self, arg>>

NextPauli ==
    \/ DoCommutes
    \/ DoPaulisMul

SpecPauli == InitPauli /\ [][NextPauli]_vars

(***************************************************************************)
(* SpecPhase: products of three phases, (self * b) * c and self * (b * c), *)
(* with the multiplication of paulis.rs and with the one that              *)
(* stabilizer.rs has for its own Phase.                                    *)
(***************************************************************************)
PhaseImpls == {"paulis", "stabilizer"}

\* lhs * rhs in the module impl
PhaseProduct(impl, lhs, rhs) ==
    IF impl = "paulis" THEN PhaseMul(lhs, rhs) ELSE StabilizerPhaseMul(lhs, rhs)

PhaseValue(p) == [tag |-> "phase", v |-> p]

InitPhase ==
    /\ pc = "init"
    /\ self \in Phases
    /\ arg \in [impl : PhaseImpls, b : Phases, c : Phases]
    /\ ret = Nothing

\* self * b
DoPhaseMulLeft ==
    /\ pc = "init"
    /\ pc' = "ab"
    /\ ret' = PhaseValue(PhaseProduct(arg.impl, self, arg.b))
    /\ UNCHANGED <<self, arg>>

\* (self * b) * c
DoPhaseMulLeftThen ==
    /\ pc = "ab"
    /\ pc' = "ab_c"
    /\ ret' = PhaseValue(PhaseProduct(arg.impl, ret.v, arg.c))
    /\ UNCHANGED <<self, arg>>

\* b * c
DoPhaseMulRight ==
    /\ pc = "init"
    /\ pc' = "bc"
    /\ ret' = PhaseValue(PhaseProduct(arg.impl, arg.b, arg.c))
    /\ UNCHANGED <<self, arg>>

\* self * (b * c)
DoPhaseMulRightThen ==
    /\ pc = "bc"
    /\ pc' = "a_bc"
    /\ ret' = PhaseValue(PhaseProduct(arg.impl, self, ret.v))
    /\ UNCHANGED <<self, arg>>

\* b * self
DoPhaseMulSwapped ==
    /\ pc = "init"
    /\ pc' = "ba"
    /\ ret' = PhaseValue(PhaseProduct(arg.impl, arg.b, self))
    /\ UNCHANGED <<self, arg>>

NextPhase ==
    \/ DoPhaseMulLeft
    \/ DoPhaseMulLeftThen
    \/ DoPhaseMulRight
    \/ DoPhaseMulRightThen
    \/ DoPhaseMulSwapped

SpecPhase == InitPhase /\ [][NextPhase]_vars

(***************************************************************************)
(* SpecPauliTriple: the products of three Pauli operators a = self, b and  *)
(* c built by Paulis::new on the same number of qubits, up to              *)
(* MaxTripleQubits: a * b, b * a, a * a, (a * b) * c and a * (b * c).  The *)
(* phase of c is One.                                                      *)
(***************************************************************************)
PaulisOn(n, phases) ==
    {PaulisNew(n, phase, z_part, x_part) :
        phase \in phases, z_part \in BitVecs(n), x_part \in BitVecs(n)}

InitPauliTriple ==
    /\ pc = "init"
    /\ \E n \in 0..MaxTripleQubits :
           /\ self \in PaulisOn(n, Phases)
           /\ arg \in [b : PaulisOn(n, Phases), c : PaulisOn(n, {"One"})]
    /\ ret = Nothing

\* a * b
DoMulLeft ==
    /\ pc = "init"
    /\ pc' = "ab"
    /\ ret' = PaulisMul(self, arg.b)
    /\ UNCHANGED <<self, arg>>

\* (a * b) * c
DoMulLeftThen ==
    /\ pc = "ab"
    /\ pc' = "ab_c"
    /\ ret' = PaulisMul(ret, arg.c)
    /\ UNCHANGED <<self, arg>>

\* b * c
DoMulRight ==
    /\ pc = "init"
    /\ pc' = "bc"
    /\ ret' = PaulisMul(arg.b, arg.c)
    /\ UNCHANGED <<self, arg>>

\* a * (b * c)
DoMulRightThen ==
    /\ pc = "bc"
    /\ pc' = "a_bc"
    /\ ret' = PaulisMul(self, ret)
    /\ UNCHANGED <<self, arg>>

\* b * a
DoMulSwapped ==
    /\ pc = "init"
    /\ pc' = "ba"
    /\ ret' = PaulisMul(arg.b, self)
    /\ UNCHANGED <<self, arg>>

\* a * a
DoMulSelf ==
    /\ pc = "init"
    /\ pc' = "aa"
    /\ ret' = PaulisMul(self, self)
    /\ UNCHANGED <<self, arg>>

NextPauliTriple ==
    \/ DoMulLeft
    \/ DoMulLeftThen
    \/ DoMulRight
    \/ DoMulRightThen
    \/ DoMulSwapped
    \/ DoMulSelf

SpecPauliTriple == InitPauliTriple /\ [][NextPauliTriple]_vars

(***************************************************************************)
(* SpecParse: Paulis::from_stirng on every string of up to MaxStrLen       *)
(* characters over the characters the parser tells apart ("a" stands for   *)
(* any character it has no case for).                                      *)
(***************************************************************************)
Characters == {"+", "-", "i", "I", "X", "Y", "Z", "a"}

Strings == UNION {[1..n -> Characters] : n \in 0..MaxStrLen}

InitParse ==
    /\ pc = "init"
    /\ self \in Strings
    /\ arg = Nothing
    /\ ret = Nothing

DoFromString ==
    /\ pc = "init"
    /\ pc' = "from_stirng"
    /\ ret' = from_stirng(self)
    /\ UNCHANGED <<self, arg>>

NextParse == DoFromString

SpecParse == InitParse /\ [][NextParse]_vars

(***************************************************************************)
(* One decode call on a freshly constructed BpDecoder.  The decoder is     *)
(* built by from_pcm from a matrix, one channel probability per bit and up *)
(* to MaxIter iterations; ms_scaling_factor varies for min-sum, which      *)
(* alone reads it, and random_serial_schedule is set for the Serial        *)
(* schedule only, SerialRelative doing the same under it.  The syndrome of *)
(* the call is part of the initial state.                                  *)
(***************************************************************************)
Decision(decoding) == [tag |-> "decoding", v |-> decoding]

BpMethods == {"ProductSum", "MinimumSum"}

BpSchedules == {"Serial", "Parallel", "SerialRelative"}

ChannelProbabilities == {<<1, 4>>, <<1, 10>>}

ScalingFactors == {<<0, 1>>, <<3, 4>>}

Configurations ==
    {c \in [bp_method : BpMethods, schedule : BpSchedules,
            max_iterations : 0..MaxIter, ms_scaling_factor : ScalingFactors,
            random_serial_schedule : BOOLEAN] :
        /\ c.bp_method = "ProductSum" => c.ms_scaling_factor = <<0, 1>>
        /\ c.random_serial_schedule => c.schedule = "Serial"}

\* self is what from_pcm returns on one of the matrices and configurations
Constructed(matrices, configurations) ==
    \E m \in matrices, c \in configurations :
        \E p \in [1..m.n_cols -> ChannelProbabilities] :
            self = from_pcm(m, c.bp_method, c.schedule, c.max_iterations,
                            c.ms_scaling_factor, c.random_serial_schedule, p)

U8Vecs(n) == [1..n -> {0, 1}]

\* the syndromes one shorter than, as long as, and one longer than the checks
Syndromes(d) ==
    LET check_count == d.pcm.parity_check_matrix.n_rows IN
    UNION {U8Vecs(n) : n \in {check_count - 1, check_count, check_count + 1} \cap Nat}

InitDecode ==
    /\ pc = "constructed"
    /\ Constructed(BuiltAscending(MaxBpChecks, MaxBits), Configurations)
    /\ arg \in [syndrome : Syndromes(self), it : {0}]
    /\ ret = Nothing

\* the call enters decode and reaches the head of the loop
DecodeEnter ==
    /\ pc = "constructed"
    /\ self' = Enter(self)
    /\ IF self.maximum_iterations = 0
       THEN pc' = "returned" /\ ret' = Decision(self.decoding)
       ELSE pc' = "iterating" /\ ret' = Nothing
    /\ UNCHANGED arg

\* one pass of the loop: it panics on a syndrome read past its end, returns
\* when it converged or was the last one, and goes on otherwise
DecodeIterate ==
    /\ pc = "iterating"
    /\ IF ReadsPastEnd(self, arg.syndrome)
       THEN /\ pc' = "panicked"
            /\ ret' = Panic("index_out_of_bounds")
            /\ UNCHANGED <<self, arg>>
       ELSE \E next \in Iterations(self, arg.syndrome, arg.it + 1) :
               IF ~Representable(next)
               THEN /\ pc' = "left_out"
                    /\ ret' = LeftOut
                    /\ UNCHANGED <<self, arg>>
               ELSE /\ self' = next
                    /\ arg' = [arg EXCEPT !.it = @ + 1]
                    /\ IF next.converge \/ arg.it + 1 = self.maximum_iterations
                       THEN pc' = "returned" /\ ret' = Decision(next.decoding)
                       ELSE pc' = "iterating" /\ ret' = Nothing

NextDecode == \/ DecodeEnter
              \/ DecodeIterate

SpecDecode == InitDecode /\ [][NextDecode]_vars

(***************************************************************************)
(* The same call on the all-zero syndrome of as many bits as the matrix    *)
(* has checks.                                                             *)
(***************************************************************************)
InitZero ==
    /\ pc = "constructed"
    /\ Constructed(BuiltAscending(MaxFewChecks, MaxFewBits), Configurations)
    /\ arg = [syndrome |-> ZeroBits(self.pcm.parity_check_matrix.n_rows), it |-> 0]
    /\ ret = Nothing

SpecZero == InitZero /\ [][NextDecode]_vars

(***************************************************************************)
(* The same call in min-sum with a schedule that is not random, on a       *)
(* syndrome of as many bits as the matrix has checks.                      *)
(***************************************************************************)
InitMinSum ==
    /\ pc = "constructed"
    /\ Constructed(BuiltAscending(MaxFewChecks, MaxFewBits),
                   {c \in Configurations : /\ c.bp_method = "MinimumSum"
                                           /\ ~c.random_serial_schedule})
    /\ arg \in [syndrome : U8Vecs(self.pcm.parity_check_matrix.n_rows), it : {0}]
    /\ ret = Nothing

SpecMinSum == InitMinSum /\ [][NextDecode]_vars

(***************************************************************************)
(* Several decode calls, one after the other, on one decoder whose         *)
(* schedule is not random, with syndromes of as many bits as the matrix    *)
(* has checks.  A call that has returned leaves the decoder as it is for   *)
(* the next one.                                                           *)
(***************************************************************************)
InitReuse ==
    /\ pc = "constructed"
    /\ Constructed(BuiltAscending(MaxBpChecks, MaxBits),
                   {c \in Configurations : ~c.random_serial_schedule})
    /\ arg \in [syndrome : U8Vecs(self.pcm.parity_check_matrix.n_rows),
                 it : {0}, calls : {1}]
    /\ ret = Nothing

\* the caller takes the result and calls decode again
DecodeAgain ==
    /\ pc = "returned"
    /\ arg.calls < MaxCalls
    /\ \E syndrome \in U8Vecs(self.pcm.parity_check_matrix.n_rows) :
           arg' = [syndrome |-> syndrome, it |-> 0, calls |-> arg.calls + 1]
    /\ pc' = "constructed"
    /\ ret' = Nothing
    /\ UNCHANGED self

NextReuse == \/ DecodeEnter
             \/ DecodeIterate
             \/ DecodeAgain

SpecReuse == InitReuse /\ [][NextReuse]_vars

(***************************************************************************)
(* The same call on the parity-check matrix of test_bp_single_error,       *)
(* H = [[1,1,0],[0,1,1]], with any syndrome of two bits.                   *)
(***************************************************************************)
Repetition == FromRowAdj(2, 3, <<<<0, 1>>, <<1, 2>>>>).m

InitRepetition ==
    /\ pc = "constructed"
    /\ Constructed({Repetition}, Configurations)
    /\ arg \in [syndrome : U8Vecs(Repetition.n_rows), it : {0}]
    /\ ret = Nothing

SpecRepetition == InitRepetition /\ [][NextDecode]_vars

(***************************************************************************)
(* Several decode calls, one after the other, on one decoder of the        *)
(* matrix of test_bp_single_error, with any configuration, the random      *)
(* serial schedule included, and any syndromes of two bits.                *)
(***************************************************************************)
InitRepetitionReuse ==
    /\ pc = "constructed"
    /\ Constructed({Repetition}, Configurations)
    /\ arg \in [syndrome : U8Vecs(Repetition.n_rows), it : {0}, calls : {1}]
    /\ ret = Nothing

SpecRepetitionReuse == InitRepetitionReuse /\ [][NextReuse]_vars

(***************************************************************************)
(* One decode call on a decoder of the same matrix, with any               *)
(* configuration, on a syndrome of up to MaxExtra bits more than the       *)
(* matrix has checks.                                                      *)
(***************************************************************************)
LongSyndromes(m) ==
    UNION {U8Vecs(m.n_rows + extra) : extra \in 1..MaxExtra}

InitLong ==
    /\ pc = "constructed"
    /\ Constructed({Repetition}, Configurations)
    /\ arg \in [syndrome : LongSyndromes(Repetition), it : {0}]
    /\ ret = Nothing

SpecLong == InitLong /\ [][NextDecode]_vars

(***************************************************************************)
(* The same call under SerialRelative, with random_serial_schedule set or  *)
(* not, on a syndrome of as many bits as the matrix has checks.            *)
(***************************************************************************)
RelativeConfigurations ==
    {c \in [bp_method : BpMethods, schedule : {"SerialRelative"},
            max_iterations : 0..MaxIter, ms_scaling_factor : ScalingFactors,
            random_serial_schedule : BOOLEAN] :
        c.bp_method = "ProductSum" => c.ms_scaling_factor = <<0, 1>>}

InitRelative ==
    /\ pc = "constructed"
    /\ Constructed(BuiltAscending(MaxFewChecks, MaxFewBits), RelativeConfigurations)
    /\ arg \in [syndrome : U8Vecs(self.pcm.parity_check_matrix.n_rows), it : {0}]
    /\ ret = Nothing

SpecRelative == InitRelative /\ [][NextDecode]_vars

(***************************************************************************)
(* The same call under the two serial schedules without random order, with *)
(* max_iterations = MaxIter, ms_scaling_factor = 0 and one channel         *)
(* probability for all bits, on a syndrome of as many bits as the matrix   *)
(* has checks.                                                             *)
(***************************************************************************)
InitSerial ==
    /\ pc = "constructed"
    /\ \E m \in BuiltAscending(MaxBpChecks, MaxBits), p \in ChannelProbabilities :
           \E c \in {c \in Configurations : /\ c.schedule # "Parallel"
                                            /\ ~c.random_serial_schedule
                                            /\ c.max_iterations = MaxIter
                                            /\ c.ms_scaling_factor = <<0, 1>>} :
               self = from_pcm(m, c.bp_method, c.schedule, c.max_iterations,
                               c.ms_scaling_factor, c.random_serial_schedule,
                               [i \in 1..m.n_cols |-> p])
    /\ arg \in [syndrome : U8Vecs(self.pcm.parity_check_matrix.n_rows), it : {0}]
    /\ ret = Nothing

SpecSerial == InitSerial /\ [][NextDecode]_vars

(***************************************************************************)
(* The same call in min-sum under the parallel schedule, with              *)
(* max_iterations = MaxIter and channel probability 1/4 for all bits, on   *)
(* a matrix of up to MaxBpChecks rows and MaxBits columns one of whose     *)
(* checks is measured a second time, and the syndrome of an error pattern. *)
(***************************************************************************)
\* the matrix m with its row i once more as the last row
RepeatedCheck(m, i) ==
    FromRowAdj(m.n_rows + 1, m.n_cols, Append(m.row_adj, m.row_adj[i + 1])).m

RepeatedChecks ==
    UNION {{RepeatedCheck(m, i) : i \in 0..(m.n_rows - 1)} : m \in BuiltAscending(MaxBpChecks, MaxBits)}

InitParallel ==
    /\ pc = "constructed"
    /\ \E m \in RepeatedChecks, p \in {<<1, 4>>} :
           \E c \in {c \in Configurations : /\ c.bp_method = "MinimumSum"
                                            /\ c.schedule = "Parallel"
                                            /\ c.max_iterations = MaxIter} :
               self = from_pcm(m, c.bp_method, c.schedule, c.max_iterations,
                               c.ms_scaling_factor, c.random_serial_schedule,
                               [i \in 1..m.n_cols |-> p])
    /\ \E e \in U8Vecs(self.bit_count) :
           arg = [syndrome |-> CandidateSyndrome(self.pcm.parity_check_matrix, e), it |-> 0]
    /\ ret = Nothing

SpecParallel == InitParallel /\ [][NextDecode]_vars

(***************************************************************************)
(* One decode call on a freshly constructed BpDecoderCss.  H_Z and H_X     *)
(* have the same number of columns, up to MaxCssQubits, and up to          *)
(* MaxStabilizers rows together; the channel has X errors at rate 1/4 and  *)
(* Z errors at rate 1/10; max_iterations is MaxIter, ms_scaling_factor is  *)
(* 0 and the schedule is not random; the syndrome has one bit per row of   *)
(* H_Z and one per row of H_X.  decoder_x runs first, one pass of its loop *)
(* at a time, then decoder_z, and the call returns the error vector made   *)
(* of the two decisions.                                                   *)
(***************************************************************************)
CssCodes ==
    {CssNew(hz, hx) : <<hz, hx>> \in
        {t \in BuiltAscending(MaxStabilizers, MaxCssQubits)
                 \X BuiltAscending(MaxStabilizers, MaxCssQubits) :
            /\ t[1].n_cols = t[2].n_cols
            /\ t[1].n_rows + t[2].n_rows <= MaxStabilizers}}

CssConfigurations ==
    {c \in Configurations : /\ c.max_iterations = MaxIter
                            /\ c.ms_scaling_factor = <<0, 1>>
                            /\ ~c.random_serial_schedule}

CssSyndromes(code) ==
    {SyndromeNew(z_syndrome, x_syndrome) :
        <<z_syndrome, x_syndrome>> \in
            BitVecs(code.hz.n_rows) \X BitVecs(code.hx.n_rows)}

InitCssDecode ==
    /\ pc = "constructed"
    /\ \E code \in CssCodes :
           /\ \E c \in CssConfigurations :
                  self = BpDecoderCssNew(code, <<1, 4>>, <<1, 10>>, c.bp_method,
                                         c.schedule, c.max_iterations,
                                         c.ms_scaling_factor,
                                         c.random_serial_schedule)
           /\ arg \in [code : {code}, syndrome : CssSyndromes(code), it : {0},
                       error_z : {<<>>}]
    /\ ret = Nothing

\* self.decoder_x.decode(&syndrome_x) enters and reaches the head of its loop
DecoderXEnter ==
    /\ pc = "constructed"
    /\ self' = [self EXCEPT !.decoder_x = Enter(@)]
    /\ ret' = Nothing
    /\ IF self.decoder_x.maximum_iterations = 0
       THEN /\ pc' = "decoded_x"
            /\ arg' = [arg EXCEPT !.error_z = self.decoder_x.decoding]
       ELSE /\ pc' = "iterating_x"
            /\ UNCHANGED arg

\* one pass of the loop of decoder_x
DecoderXIterate ==
    /\ pc = "iterating_x"
    /\ IF ReadsPastEnd(self.decoder_x, SyndromeX(arg.syndrome))
       THEN /\ pc' = "panicked"
            /\ ret' = Panic("index_out_of_bounds")
            /\ UNCHANGED <<self, arg>>
       ELSE \E next \in Iterations(self.decoder_x, SyndromeX(arg.syndrome),
                                   arg.it + 1) :
               IF ~Representable(next)
               THEN /\ pc' = "left_out"
                    /\ ret' = LeftOut
                    /\ UNCHANGED <<self, arg>>
               ELSE /\ self' = [self EXCEPT !.decoder_x = next]
                    /\ ret' = Nothing
                    /\ IF next.converge
                          \/ arg.it + 1 = self.decoder_x.maximum_iterations
                       THEN /\ pc' = "decoded_x"
                            /\ arg' = [arg EXCEPT !.it = 0,
                                                  !.error_z = next.decoding]
                       ELSE /\ pc' = "iterating_x"
                            /\ arg' = [arg EXCEPT !.it = @ + 1]

\* self.decoder_z.decode(&syndrome_z) enters and reaches the head of its loop
DecoderZEnter ==
    /\ pc = "decoded_x"
    /\ self' = [self EXCEPT !.decoder_z = Enter(@)]
    /\ UNCHANGED arg
    /\ IF self.decoder_z.maximum_iterations = 0
       THEN /\ pc' = "returned"
            /\ ret' = from_u8vec(self.decoder_z.decoding, arg.error_z)
       ELSE /\ pc' = "iterating_z"
            /\ ret' = Nothing

\* one pass of the loop of decoder_z; after the last one decode returns
DecoderZIterate ==
    /\ pc = "iterating_z"
    /\ IF ReadsPastEnd(self.decoder_z, SyndromeZ(arg.syndrome))
       THEN /\ pc' = "panicked"
            /\ ret' = Panic("index_out_of_bounds")
            /\ UNCHANGED <<self, arg>>
       ELSE \E next \in Iterations(self.decoder_z, SyndromeZ(arg.syndrome),
                                   arg.it + 1) :
               IF ~Representable(next)
               THEN /\ pc' = "left_out"
                    /\ ret' = LeftOut
                    /\ UNCHANGED <<self, arg>>
               ELSE /\ self' = [self EXCEPT !.decoder_z = next]
                    /\ arg' = [arg EXCEPT !.it = @ + 1]
                    /\ IF next.converge
                          \/ arg.it + 1 = self.decoder_z.maximum_iterations
                       THEN /\ pc' = "returned"
                            /\ ret' = from_u8vec(next.decoding, arg.error_z)
                       ELSE /\ pc' = "iterating_z"
                            /\ ret' = Nothing

NextCssDecode == \/ DecoderXEnter
                 \/ DecoderXIterate
                 \/ DecoderZEnter
                 \/ DecoderZIterate

SpecCssDecode == InitCssDecode /\ [][NextCssDecode]_vars

(***************************************************************************)
(* What the claims speak of, stated on the matrix a record denotes and     *)
(* not on how the code computes.                                           *)
(***************************************************************************)
\* H[i, j] = 1, for 0-based i and j
Entry(m, i, j) == Contains(m.row_adj[i + 1], j)

IsAscending(list) == \A k \in 1..(Len(list) - 1) : list[k] < list[k + 1]

RowsAscending(m) == \A i \in 1..Len(m.row_adj) : IsAscending(m.row_adj[i])

ColsAscending(m) == \A j \in 1..Len(m.col_adj) : IsAscending(m.col_adj[j])

\* the two adjacencies agree and every stored index is within the shape
Consistent(m) ==
    /\ Len(m.row_adj) = m.n_rows
    /\ Len(m.col_adj) = m.n_cols
    /\ InRange(m.row_adj, m.n_cols)
    /\ InRange(m.col_adj, m.n_rows)
    /\ \A i \in 0..(m.n_rows - 1) : \A j \in 0..(m.n_cols - 1) :
           Contains(m.row_adj[i + 1], j) <=> Contains(m.col_adj[j + 1], i)

\* the rows of the matrix as bit vectors
Dense(m) == [i \in 1..m.n_rows |-> [j \in 1..m.n_cols |-> Entry(m, i - 1, j - 1)]]

Min(a, b) == IF a <= b THEN a ELSE b

IsOdd(n) == n % 2 = 1

(***************************************************************************)
(* C3: for every matrix H and every bit vector v of length cols(H), H * v  *)
(* has length rows(H) and its i-th bit is the parity of the number of      *)
(* columns j with H[i, j] = 1 and v[j] = 1.                                *)
(***************************************************************************)
C3_MulVecIsParity ==
    (pc = "mul_vec" /\ Len(arg.v) = self.n_cols) =>
        /\ ret.tag = "bits"
        /\ Len(ret.v) = self.n_rows
        /\ \A i \in 0..(self.n_rows - 1) :
               ret.v[i + 1] =
                   IsOdd(Cardinality({j \in 0..(self.n_cols - 1) :
                                          Entry(self, i, j) /\ arg.v[j + 1]}))

\* a row with two of its columns set in v, in a list that is not ascending
C3_Witness ==
    /\ pc = "mul_vec"
    /\ ret.tag = "bits"
    /\ \E i \in 0..(self.n_rows - 1) :
        /\ ~IsAscending(self.row_adj[i + 1])
        /\ Cardinality({j \in 0..(self.n_cols - 1) :
                            Entry(self, i, j) /\ arg.v[j + 1]}) = 2
        /\ ret.v[i + 1] = FALSE

(***************************************************************************)
(* C5: for every BinarySparseMatrix H that a constructor accepts           *)
(* (including one built by from_row_adj from rows whose column indices are *)
(* not in ascending order), H.transpose().transpose() compares equal to H. *)
(* Here self is H and ret is H.transpose().                                *)
(***************************************************************************)
C5_TransposeInvolution ==
    pc = "transpose" => Transpose(ret.m) = Matrix(self)

(***************************************************************************)
(* C6: for every matrix H, rank(H) <= min(rows(H), cols(H)) and            *)
(* rank(H) = rank(H.transpose()).                                          *)
(***************************************************************************)
C6_RankBoundsAndTranspose ==
    /\ pc = "rank" => ret.n <= Min(self.n_rows, self.n_cols)
    /\ pc = "rank_of_transpose" => ret.n = Rank(self)

(***************************************************************************)
(* C7: for every matrix whose row adjacency lists are sorted, the sparse   *)
(* rank() returns the same value as the dense bit-matrix rank routine      *)
(* applied to the same matrix.                                             *)
(***************************************************************************)
C7_SparseRankIsDenseRank ==
    (pc = "rank" /\ RowsAscending(self)) => ret.n = DenseRank(Dense(self))

\* two sorted rows that share their first column and are merged to nothing
C7_Witness ==
    /\ pc = "rank"
    /\ RowsAscending(self)
    /\ self.n_rows = 2
    /\ self.row_adj[1] = self.row_adj[2]
    /\ Len(self.row_adj[1]) >= 2
    /\ ret.n = 1

(***************************************************************************)
(* C1: BinarySparseMatrix::new(R, C, row_adj, col_adj) fails for every     *)
(* input in which the two adjacencies are not mutually consistent, i.e.    *)
(* whenever there are r, c with (c in row_adj[r]) different from           *)
(* (r in col_adj[c]), or any index in row_adj or col_adj is out of range;  *)
(* it succeeds only when both directions of the correspondence hold.       *)
(***************************************************************************)
MutuallyConsistent(n_rows, n_cols, row_adj, col_adj) ==
    /\ Len(row_adj) = n_rows
    /\ Len(col_adj) = n_cols
    /\ InRange(row_adj, n_cols)
    /\ InRange(col_adj, n_rows)
    /\ \A r \in 0..(n_rows - 1) : \A c \in 0..(n_cols - 1) :
           Contains(row_adj[r + 1], c) <=> Contains(col_adj[c + 1], r)

C1_NewRejectsInconsistent ==
    pc = "new" =>
        (ret.tag = "matrix" =>
            MutuallyConsistent(self.n_rows, self.n_cols, self.row_adj, self.col_adj))

(***************************************************************************)
(* C2: every BinarySparseMatrix produced by from_row_adj, from_col_adj,    *)
(* zeros, transpose or a matrix product satisfies: for all i, j, j is in   *)
(* row_adj[i] iff i is in col_adj[j], and every stored index is within     *)
(* the matrix shape.                                                       *)
(***************************************************************************)
C2_ProducedMatricesConsistent ==
    (pc \in {"from_row_adj", "from_col_adj", "zeros", "transpose", "mul_mat"}
        /\ ret.tag = "matrix") => Consistent(ret.m)

\* a product with a row of two ones
C2_Witness ==
    /\ pc = "mul_mat"
    /\ ret.tag = "matrix"
    /\ \E i \in 1..ret.m.n_rows : Len(ret.m.row_adj[i]) = 2
    /\ Consistent(ret.m)

(***************************************************************************)
(* C4: for every A and B with cols(A) = rows(B), the matrix product A * B  *)
(* has shape (rows(A), cols(B)), its entry (i, k) is 1 iff                 *)
(* |row_adj_A[i] intersect col_adj_B[k]| is odd, and the adjacency lists   *)
(* of the result are sorted ascending and mutually consistent.             *)
(***************************************************************************)
C4_MulMatIsParity ==
    (pc = "mul_mat" /\ self.n_cols = arg.m.n_rows) =>
        /\ ret.tag = "matrix"
        /\ ret.m.n_rows = self.n_rows
        /\ ret.m.n_cols = arg.m.n_cols
        /\ Len(ret.m.row_adj) = self.n_rows
        /\ \A i \in 0..(self.n_rows - 1) : \A k \in 0..(arg.m.n_cols - 1) :
               Contains(ret.m.row_adj[i + 1], k) <=>
                   IsOdd(Cardinality({x \in 0..(self.n_cols - 1) :
                                          /\ Contains(self.row_adj[i + 1], x)
                                          /\ Contains(arg.m.col_adj[k + 1], x)}))
        /\ RowsAscending(ret.m)
        /\ ColsAscending(ret.m)
        /\ Consistent(ret.m)

\* an entry that is 0 because the intersection has two elements, beside a row of two ones
C4_Witness ==
    /\ pc = "mul_mat"
    /\ ret.tag = "matrix"
    /\ \E i \in 0..(self.n_rows - 1) : \E k \in 0..(arg.m.n_cols - 1) :
        /\ Cardinality({x \in 0..(self.n_cols - 1) :
                            /\ Contains(self.row_adj[i + 1], x)
                            /\ Contains(arg.m.col_adj[k + 1], x)}) = 2
        /\ ~Contains(ret.m.row_adj[i + 1], k)
    /\ \E i \in 1..ret.m.n_rows : Len(ret.m.row_adj[i]) = 2

(***************************************************************************)
(* C8: CssCode::from_parity_check_matrices rejects every pair with         *)
(* H_X * H_Z^T # 0 over GF(2), rejects every orthogonal pair with          *)
(* k = n - rank(H_X) - rank(H_Z) equal to 0, and accepts every orthogonal  *)
(* pair of equal column count with k > 0.  The rank is that of the matrix  *)
(* over GF(2), computed on its dense rows.                                 *)
(***************************************************************************)
Orthogonal(hx, hz) ==
    \A i \in 0..(hx.n_rows - 1) : \A j \in 0..(hz.n_rows - 1) :
        ~IsOdd(Cardinality({c \in 0..(hz.n_cols - 1) : Entry(hx, i, c) /\ Entry(hz, j, c)}))

LogicalQubits(hz, hx) == hz.n_cols - DenseRank(Dense(hx)) - DenseRank(Dense(hz))

C8_CssConstruction ==
    (pc = "from_parity_check_matrices" /\ self.n_cols = arg.m.n_cols) =>
        /\ ~Orthogonal(arg.m, self) => ret.tag = "panic"
        /\ (Orthogonal(arg.m, self) /\ LogicalQubits(self, arg.m) = 0) => ret.tag = "panic"
        /\ (Orthogonal(arg.m, self) /\ LogicalQubits(self, arg.m) > 0) => ret.tag = "css"

(***************************************************************************)
(* C9: CssCode::syndrome(e) returns (s_Z, s_X) = (H_Z * e.x_bits,          *)
(* H_X * e.z_bits) with |s_Z| = rows(H_Z) and |s_X| = rows(H_X), and it is *)
(* linear: for all error patterns e, f of length n, syndrome(e XOR f) is   *)
(* the componentwise XOR of syndrome(e) and syndrome(f).                   *)
(***************************************************************************)
\* bit i of H * v, as the parity of a count
ParityBit(m, v, i) ==
    IsOdd(Cardinality({j \in 0..(m.n_cols - 1) : Entry(m, i, j) /\ v[j + 1]}))

C9_SyndromeLinear ==
    pc = "syndrome" =>
        /\ ret.tag = "syndrome"
        /\ Len(ret.z_syndrome) = self.hz.n_rows
        /\ Len(ret.x_syndrome) = self.hx.n_rows
        /\ \A i \in 0..(self.hz.n_rows - 1) :
               ret.z_syndrome[i + 1] = ParityBit(self.hz, arg.x_part, i)
        /\ \A i \in 0..(self.hx.n_rows - 1) :
               ret.x_syndrome[i + 1] = ParityBit(self.hx, arg.z_part, i)
        /\ \A fx, fz \in BitVecs(self.hz.n_cols) :
               LET f == ErrorVectorNew(fx, fz)
                   sum == ErrorVectorNew(BitXor(arg.x_part, fx), BitXor(arg.z_part, fz))
               IN  /\ Syndrome(self, sum).z_syndrome
                         = BitXor(ret.z_syndrome, Syndrome(self, f).z_syndrome)
                   /\ Syndrome(self, sum).x_syndrome
                         = BitXor(ret.x_syndrome, Syndrome(self, f).x_syndrome)

\* an X error that a Z check flags, with a Z error that leaves an X check silent
C9_Witness ==
    /\ pc = "syndrome"
    /\ ret.tag = "syndrome"
    /\ arg.x_part # arg.z_part
    /\ \E i \in 1..Len(ret.z_syndrome) : ret.z_syndrome[i]
    /\ \E i \in 1..Len(ret.x_syndrome) : ~ret.x_syndrome[i]
    /\ \E j \in 1..Len(arg.z_part) : arg.z_part[j]

(***************************************************************************)
(* C10: commutes(a, b) returns true iff the symplectic inner product       *)
(* <a.z, b.x> + <a.x, b.z> is 0 mod 2, for all Pauli operators a, b on the *)
(* same number of qubits; the result does not depend on either phase and   *)
(* is symmetric in a and b.                                                *)
(***************************************************************************)
\* the number of positions where both bit vectors are set
Overlap(u, v) == Cardinality({i \in 1..Len(u) : u[i] /\ v[i]})

WithPhase(a, phase) == [a EXCEPT !.phase = phase]

C10_CommutesIsSymplectic ==
    (pc = "commutes" /\ self.num_qubits = arg.num_qubits) =>
        LET a == self.binary_symplectic_vector
            b == arg.binary_symplectic_vector
        IN  /\ ret.tag = "bool"
            /\ ret.b = ~IsOdd(Overlap(a.z_part, b.x_part) + Overlap(a.x_part, b.z_part))
            /\ \A p, q \in Phases : Commutes(WithPhase(self, p), WithPhase(arg, q)) = ret
            /\ Commutes(arg, self) = ret

\* X on one qubit against Z on the same qubit: they anticommute
C10_Witness ==
    /\ pc = "commutes"
    /\ ret.tag = "bool"
    /\ ~ret.b
    /\ self.num_qubits = 2
    /\ self.phase # arg.phase
    /\ IsOdd(Overlap(self.binary_symplectic_vector.x_part,
                     arg.binary_symplectic_vector.z_part))
    /\ ~IsOdd(Overlap(self.binary_symplectic_vector.z_part,
                      arg.binary_symplectic_vector.x_part))

(***************************************************************************)
(* C11: for Pauli operators a, b on equal n the product a*b has            *)
(* x_bits = a.x XOR b.x, z_bits = a.z XOR b.z and phase                    *)
(* a.phase * b.phase * (product over the positions of the correction of    *)
(* Table 1: +i for X*Y, Y*Z, Z*X, -i for X*Z, Y*X, Z*Y, +1 otherwise).     *)
(* Bits are read through the x-part and z-part accessors; a phase is the   *)
(* exponent of i.                                                          *)
(***************************************************************************)
PhaseExponent(phase) ==
    CASE phase = "One" -> 0 [] phase = "I" -> 1 [] phase = "MinusOne" -> 2 [] phase = "MinusI" -> 3

\* the single-qubit operator of bits (x, z)
Letter(x, z) == IF x THEN (IF z THEN "Y" ELSE "X") ELSE (IF z THEN "Z" ELSE "I")

\* the exponent of i of the correction of Table 1 for the product p * q
Table1(p, q) ==
    IF <<p, q>> \in {<<"X", "Y">>, <<"Y", "Z">>, <<"Z", "X">>} THEN 1
    ELSE IF <<p, q>> \in {<<"X", "Z">>, <<"Y", "X">>, <<"Z", "Y">>} THEN 3
    ELSE 0

RECURSIVE CorrectionSum(_, _, _)
CorrectionSum(a, b, i) ==
    IF i > a.num_qubits THEN 0
    ELSE Table1(Letter(get_x_part(a)[i], get_z_part(a)[i]),
                Letter(get_x_part(b)[i], get_z_part(b)[i])) + CorrectionSum(a, b, i + 1)

C11_PaulisProduct ==
    (pc = "mul" /\ self.num_qubits = arg.num_qubits) =>
        /\ ret.tag = "paulis"
        /\ get_x_part(ret) = BitXor(get_x_part(self), get_x_part(arg))
        /\ get_z_part(ret) = BitXor(get_z_part(self), get_z_part(arg))
        /\ PhaseExponent(ret.phase) =
               (PhaseExponent(self.phase) + PhaseExponent(arg.phase)
                    + CorrectionSum(self, arg, 1)) % 4

(***************************************************************************)
(* C12: from_stirng accepts a string only if it is an optional leading     *)
(* "+" or "-", then an optional "i", then only characters of {I, X, Y, Z}; *)
(* a string with any other character, or with a sign or an "i" outside     *)
(* that prefix, is rejected.                                               *)
(***************************************************************************)
AfterSign(s) == IF Len(s) > 0 /\ s[1] \in {"+", "-"} THEN Tail(s) ELSE s

AfterPrefix(s) ==
    LET t == AfterSign(s) IN IF Len(t) > 0 /\ t[1] = "i" THEN Tail(t) ELSE t

WellFormed(s) == \A k \in 1..Len(AfterPrefix(s)) : AfterPrefix(s)[k] \in PauliLetters

C12_ParserRejectsMalformed ==
    (pc = "from_stirng" /\ ret.tag = "paulis") => WellFormed(self)

(***************************************************************************)
(* C13: for an accepted Pauli string from_stirng returns num_qubits = the  *)
(* count of I/X/Y/Z characters, phase +1 for the prefix "+" or none, -1    *)
(* for "-", +i for "+i" or "i", -i for "-i", and at each position the bits *)
(* (x, z) = (0,0) for I, (1,0) for X, (0,1) for Z, (1,1) for Y, as read    *)
(* through the x-part and z-part accessors.                                *)
(***************************************************************************)
PrefixPhase(s) ==
    LET minus == Len(s) > 0 /\ s[1] = "-"
        imag  == Len(AfterSign(s)) > 0 /\ AfterSign(s)[1] = "i"
    IN  IF imag THEN (IF minus THEN "MinusI" ELSE "I")
        ELSE (IF minus THEN "MinusOne" ELSE "One")

C13_ParserResult ==
    (pc = "from_stirng" /\ ret.tag = "paulis" /\ WellFormed(self)) =>
        LET body == AfterPrefix(self) IN
        /\ ret.num_qubits = Len(body)
        /\ ret.phase = PrefixPhase(self)
        /\ Len(get_x_part(ret)) = Len(body)
        /\ Len(get_z_part(ret)) = Len(body)
        /\ \A k \in 1..Len(body) :
               Letter(get_x_part(ret)[k], get_z_part(ret)[k]) = body[k]

(***************************************************************************)
(* C14: with max_iter >= 1 and every channel probability below 1/2, decode *)
(* on the all-zero syndrome of length M does not fail and does not go past *)
(* its first iteration: it returns the all-zero decision with converge     *)
(* true and iterations = 1, for every matrix, method and schedule (a run   *)
(* whose numbers are longer than MaxMagnitude is left out).                *)
(***************************************************************************)
BelowHalf(d) ==
    \A i \in 1..d.bit_count :
        2 * d.channel_probabilities[i][1] < d.channel_probabilities[i][2]

ZeroSyndromeCall ==
    /\ self.maximum_iterations >= 1
    /\ BelowHalf(self)
    /\ arg.syndrome = ZeroBits(self.pcm.parity_check_matrix.n_rows)

C14_ZeroSyndromeDecodesToZero ==
    ZeroSyndromeCall =>
        /\ pc \in {"constructed", "iterating", "returned", "left_out"}
        /\ pc = "iterating" => arg.it = 0
        /\ pc = "returned" =>
               /\ ret = Decision(ZeroBits(self.bit_count))
               /\ self.converge
               /\ self.iterations = 1

C14_Witness ==
    /\ ZeroSyndromeCall
    /\ pc = "returned"
    /\ self.schedule = "SerialRelative"
    /\ self.bp_method = "ProductSum"
    /\ Cardinality(Entries(self.pcm.parity_check_matrix)) = MaxFewChecks * MaxFewBits
    /\ self.channel_probabilities[1] # self.channel_probabilities[2]

(***************************************************************************)
(* C15, as stated: for a weight-1 error e on a matrix of a code with       *)
(* distance >= 3, here H = [[1,1,0],[0,1,1]], decode on the syndrome H*e   *)
(* returns exactly e with converge true.                                   *)
(***************************************************************************)
WeightOne(n) == {e \in U8Vecs(n) : Cardinality({i \in 1..n : e[i] = 1}) = 1}

\* the call is on the syndrome of the weight-1 error e
SingleErrorCall(e) ==
    /\ self.pcm.parity_check_matrix = Repetition
    /\ self.maximum_iterations >= 1
    /\ e \in WeightOne(self.bit_count)
    /\ arg.syndrome = CandidateSyndrome(self.pcm.parity_check_matrix, e)

ReturnsError(e) ==
    /\ pc \in {"constructed", "iterating", "returned", "left_out"}
    /\ pc = "returned" => ret = Decision(e) /\ self.converge

C15_SingleErrorCorrected ==
    \A e \in WeightOne(Repetition.n_cols) : SingleErrorCall(e) => ReturnsError(e)

(***************************************************************************)
(* C15, amended: on H = [[1,1,0],[0,1,1]] with every channel probability   *)
(* 1/10 and max_iter >= 2, under product-sum or under min-sum with         *)
(* ms_scaling_factor = 0, with any schedule, decode on the syndrome of a   *)
(* weight-1 error e returns exactly e with converge true, after at most    *)
(* two iterations.                                                         *)
(***************************************************************************)
TestConfiguration ==
    /\ self.maximum_iterations >= 2
    /\ \A i \in 1..self.bit_count : self.channel_probabilities[i] = <<1, 10>>
    /\ self.ms_scaling_factor = <<0, 1>>

C15_SingleErrorCorrectedInTwo ==
    \A e \in WeightOne(Repetition.n_cols) :
        (SingleErrorCall(e) /\ TestConfiguration) =>
            /\ pc \in {"constructed", "iterating", "returned"}
            /\ pc = "iterating" => arg.it < 2
            /\ pc = "returned" =>
                   /\ ret = Decision(e)
                   /\ self.converge
                   /\ self.iterations <= 2

C15_Witness ==
    /\ SingleErrorCall(<<0, 1, 0>>)
    /\ TestConfiguration
    /\ self.bp_method = "ProductSum"
    /\ self.schedule = "Serial"
    /\ pc = "returned"
    /\ self.iterations = 2

(***************************************************************************)
(* C17: decode on a constructed decoder never panics: for every syndrome   *)
(* passed to it, it returns a decision vector of length N.                 *)
(***************************************************************************)
C17_DecodeNeverFails ==
    /\ pc # "panicked"
    /\ pc = "returned" => ret.tag = "decoding" /\ Len(ret.v) = self.bit_count

(***************************************************************************)
(* C16: every decode call with max_iter >= 1 ends after at most max_iter   *)
(* iterations, in one of two ways: it returns at the first iteration t     *)
(* whose candidate syndrome is the syndrome of the call, with converge     *)
(* true and iterations = t, or it returns after iteration max_iter with    *)
(* the last decision, converge false and iterations = max_iter.  Stated on *)
(* every state of a call: the call is under way or has returned; while the *)
(* loop runs, fewer than max_iter iterations are done and none of them     *)
(* converged; once returned, it is in one of the two ways (a run whose     *)
(* numbers are longer than MaxMagnitude is left out).                      *)
(***************************************************************************)
Converged ==
    /\ self.converge
    /\ self.candidate_syndrome = arg.syndrome
    /\ self.iterations = arg.it

Exhausted ==
    /\ ~self.converge
    /\ self.candidate_syndrome # arg.syndrome
    /\ self.iterations = self.maximum_iterations
    /\ arg.it = self.maximum_iterations

DecodeDone ==
    /\ ret = Decision(self.decoding)
    /\ arg.it \in 1..self.maximum_iterations
    /\ Converged \/ Exhausted

StillIterating ==
    /\ arg.it < self.maximum_iterations
    /\ ~self.converge
    /\ arg.it >= 1 => self.candidate_syndrome # arg.syndrome

C16_DecodeTerminates ==
    self.maximum_iterations >= 1 =>
        /\ pc \in {"constructed", "iterating", "returned", "left_out"}
        /\ pc = "iterating" => StillIterating
        /\ pc = "returned" => DecodeDone

(***************************************************************************)
(* C18: for a configuration that is not random and every syndrome s, the   *)
(* decision, converge and iterations of decode(s) on a decoder that has    *)
(* served earlier calls are those of decode(s) on a freshly constructed    *)
(* decoder of the same configuration.                                      *)
(***************************************************************************)
Fresh(d) ==
    from_pcm(d.pcm.parity_check_matrix, d.bp_method, d.schedule,
             d.maximum_iterations, d.ms_scaling_factor, d.random_serial_schedule,
             d.channel_probabilities)

Outcome(d) ==
    [tag |-> "outcome", decoding |-> d.decoding, converge |-> d.converge,
     iterations |-> d.iterations]

OnFresh(d, syndrome) ==
    LET r == Decode(Fresh(d), syndrome) IN
    IF r.tag = "returned" THEN Outcome(r.decoder) ELSE r

C18_ReusedAsFresh ==
    pc = "returned" => Outcome(self) = OnFresh(self, arg.syndrome)

(***************************************************************************)
(* C20: in min-sum, parallel and serial, the magnitude of every            *)
(* check-to-bit message written by iteration t is the damping factor of t  *)
(* times the least magnitude of the bit-to-check messages the check has    *)
(* from its other bits at that time (f64::MAX when it has none), the       *)
(* factor being 1 - 2^(-t) when ms_scaling_factor is 0 and                 *)
(* ms_scaling_factor at every iteration otherwise.  In a serial pass the   *)
(* message of a bit scheduled earlier in the pass is the one that pass     *)
(* wrote.                                                                  *)
(***************************************************************************)
DampingFactor(ms_scaling_factor, t) ==
    IF ms_scaling_factor = <<0, 1>> THEN RSub(<<1, 1>>, <<1, 2 ^ t>>)
    ELSE ms_scaling_factor

\* bit l is scheduled before bit j in the order
ScheduledBefore(order, l, j) == IndexOf(order, l) < IndexOf(order, j)

\* the |bit_to_check_msg| that check e[1] has from the bits other than e[2],
\* of the messages before seen during the pass that leaves after
OtherMagnitudes(before, after, e) ==
    LET others == {l \in 0..(before.bit_count - 1) :
                      l # e[2] /\ <<e[1], l>> \in DOMAIN before.pcm.bit_to_check_msg}
        Seen(l) == IF /\ before.schedule # "Parallel"
                      /\ ScheduledBefore(after.serial_schedule_order, l, e[2])
                   THEN VAbs(after.pcm.bit_to_check_msg[<<e[1], l>>])
                   ELSE VAbs(before.pcm.bit_to_check_msg[<<e[1], l>>]) IN
    {Seen(l) : l \in others}

\* the least of a set of magnitudes that are numbers
Least(magnitudes) ==
    CHOOSE least \in magnitudes : \A m \in magnitudes : ~VLess(m, least)

\* the least of f64::MAX and of those magnitudes: the fold starts from
\* f64::MAX and a magnitude lowers it only when it compares less
LeastOther(before, after, e) ==
    Least({FloatMax} \cup {m \in OtherMagnitudes(before, after, e) : ~IsNan(m.f)})

MinSumPass ==
    /\ pc = "iterating"
    /\ pc' \in {"iterating", "returned"}
    /\ self.bp_method = "MinimumSum"

C20_MinSumDamping ==
    [][MinSumPass =>
          \A e \in DOMAIN self.pcm.check_to_bit_msg :
              VAbs(self'.pcm.check_to_bit_msg[e])
                  = VScale(DampingFactor(self.ms_scaling_factor, arg'.it),
                           LeastOther(self, self', e))]_vars

C20_Witness ==
    /\ self.bp_method = "MinimumSum"
    /\ self.ms_scaling_factor = <<0, 1>>
    /\ self.schedule = "Serial"
    /\ pc \in {"iterating", "returned"}
    /\ arg.it = 2
    /\ \E e \in DOMAIN self.pcm.check_to_bit_msg :
           /\ self.pcm.check_to_bit_msg[e].k = <<0, 1>>
           /\ self.pcm.check_to_bit_msg[e].f # <<0, 1>>

(***************************************************************************)
(* C19: BpDecoderCss::decode on (s_Z, s_X) returns the error vector whose  *)
(* x part is the decision of the H_Z decoder on s_Z and whose z part is    *)
(* the decision of the H_X decoder on s_X.  Each decoder ends in the state *)
(* its own decode call leaves on its own syndrome from its own state at    *)
(* construction, whatever the other syndrome and the other decoder are;    *)
(* while one decoder runs, the other stays as it is; and running the H_Z   *)
(* decoder first and the H_X decoder second gives the same error vector    *)
(* and the same two final decoders.                                        *)
(***************************************************************************)
\* the decoder of matrix h alone, as constructed, run on the bits s
Alone(d, h, s) ==
    IF d.pcm.parity_check_matrix # h THEN Panic("other_matrix")
    ELSE Decode(Fresh(d), ToU8(s))

\* decode with the H_Z decoder run before the H_X decoder
ZBeforeX(css, syndrome) ==
    LET on_z == Decode(css.decoder_z, ToU8(syndrome.z_syndrome))
        after_z == [css EXCEPT !.decoder_z = on_z.decoder]
        on_x == Decode(after_z.decoder_x, ToU8(syndrome.x_syndrome))
        after_x == [after_z EXCEPT !.decoder_x = on_x.decoder] IN
    [css |-> after_x,
     error_vector |-> from_u8vec(on_z.decoder.decoding, on_x.decoder.decoding)]

C19_CssDecodeIndependent ==
    LET fresh == [decoder_x |-> Fresh(self.decoder_x),
                  decoder_z |-> Fresh(self.decoder_z)] IN
    /\ pc \in {"constructed", "iterating_x"} => self.decoder_z = fresh.decoder_z
    /\ pc \in {"decoded_x", "iterating_z"} =>
           LET on_x == Alone(self.decoder_x, arg.code.hx, arg.syndrome.x_syndrome) IN
           /\ on_x.tag = "returned"
           /\ self.decoder_x = on_x.decoder
           /\ arg.error_z = on_x.decoder.decoding
    /\ pc = "returned" =>
           /\ self.decoder_z.pcm.parity_check_matrix = arg.code.hz
           /\ self.decoder_x.pcm.parity_check_matrix = arg.code.hx
           /\ [css |-> self, error_vector |-> ret] = ZBeforeX(fresh, arg.syndrome)
           /\ ret = ErrorVectorNew([i \in 1..arg.code.hz.n_cols |->
                                       self.decoder_z.decoding[i] = 1],
                                   [i \in 1..arg.code.hz.n_cols |->
                                       self.decoder_x.decoding[i] = 1])

\* the two decoders differ and so do the two parts returned
C19_Witness ==
    /\ pc = "returned"
    /\ ret.tag = "error_vector"
    /\ ret.x_part # ret.z_part
    /\ arg.code.hz # arg.code.hx
    /\ arg.syndrome.z_syndrome # arg.syndrome.x_syndrome
    /\ self.decoder_x.iterations >= 1
    /\ self.decoder_z.iterations >= 1

(***************************************************************************)
(* C21: under SerialRelative, the order of the bits a pass of the loop     *)
(* starts with lists every bit once, by non-increasing reliability, the    *)
(* reliability of bit j being |ln((1 - p[j]) / p[j])| in iteration 1 and   *)
(* |log_prob_ratios[j]| as the iteration before left it afterwards, and    *)
(* bits of equal reliability stand as they stood in the order before.      *)
(***************************************************************************)
ClaimedReliability(d, it) ==
    [j \in 1..d.bit_count |->
        IF it = 1 THEN VAbs(LogRatio(d.bp_method, d.channel_probabilities[j]))
        ELSE VAbs(d.log_prob_ratios[j])]

\* order lists the bits of earlier by non-increasing val, ties as in earlier
SortedStable(order, earlier, val) ==
    /\ Len(order) = Len(earlier)
    /\ \A k \in 1..Len(earlier) : \E l \in 1..Len(order) : order[l] = earlier[k]
    /\ \A k, l \in 1..Len(order) :
           k < l =>
               /\ ~VLess(val[order[k] + 1], val[order[l] + 1])
               /\ ~VLess(val[order[l] + 1], val[order[k] + 1]) =>
                      IndexOf(earlier, order[k]) < IndexOf(earlier, order[l])

RelativePass ==
    /\ pc = "iterating"
    /\ pc' \in {"iterating", "returned"}
    /\ self.schedule = "SerialRelative"

C21_OrderSortedByReliability ==
    [][RelativePass =>
          SortedStable(self'.serial_schedule_order, self.serial_schedule_order,
                       ClaimedReliability(self, arg'.it))]_vars

(***************************************************************************)
(* C22: in product-sum, under every schedule, every check-to-bit message   *)
(* a pass has written is a finite number, neither infinite nor NaN: the    *)
(* argument x of ln((1 + x) / (1 - x)) was strictly inside (-1, 1).  A     *)
(* product-sum value is kept as the tanh of its half, so it is finite when *)
(* that is strictly inside (-1, 1).                                        *)
(***************************************************************************)
FiniteProductSum(v) ==
    /\ ~IsNan(v.f)
    /\ RLess(<<-1, 1>>, v.f)
    /\ RLess(v.f, <<1, 1>>)

C22_ProductSumMessagesFinite ==
    (self.bp_method = "ProductSum" /\ pc \in {"iterating", "returned"}) =>
        \A e \in DOMAIN self.pcm.check_to_bit_msg :
            FiniteProductSum(self.pcm.check_to_bit_msg[e])

(***************************************************************************)
(* C23: in a serial pass, the check-to-bit message written on edge (i, j)  *)
(* when bit j is updated is computed from the bit-to-check messages of the *)
(* other bits l of row i, reading for l the message this pass wrote when l *)
(* stands before j in the order and the message the state before the pass  *)
(* held when l stands after j; and after the pass every edge (i, j) holds  *)
(* bit_to_check_msg = log_prob_ratios[j] - check_to_bit_msg.               *)
(***************************************************************************)
\* the messages check i has from the bits other than j when bit j is updated
ReadFor(before, after, i, j) ==
    LET cols == nonzero_cols(before.pcm.parity_check_matrix, i)
        others == SelectSeq(cols, LAMBDA col : col # j) IN
    [k \in 1..Len(others) |->
        IF ScheduledBefore(after.serial_schedule_order, others[k], j)
        THEN after.pcm.bit_to_check_msg[<<i, others[k]>>]
        ELSE before.pcm.bit_to_check_msg[<<i, others[k]>>]]

\* the check-to-bit message of edge (i, j) from the messages read
FromRead(before, after, syndrome, it, i, j) ==
    IF before.bp_method = "ProductSum"
    THEN SerialProductSum(ReadFor(before, after, i, j), syndrome[i + 1])
    ELSE SerialMinimumSum(ReadFor(before, after, i, j), syndrome[i + 1],
                          Alpha(before.ms_scaling_factor, it))

SerialPass ==
    /\ pc = "iterating"
    /\ pc' \in {"iterating", "returned"}
    /\ self.schedule # "Parallel"

C23_SerialReadsLatest ==
    [][SerialPass =>
          \A e \in DOMAIN self.pcm.check_to_bit_msg :
              /\ self'.pcm.check_to_bit_msg[e]
                     = FromRead(self, self', arg.syndrome, arg'.it, e[1], e[2])
              /\ self'.pcm.bit_to_check_msg[e]
                     = VSub(self.bp_method, self'.log_prob_ratios[e[2] + 1],
                            self'.pcm.check_to_bit_msg[e])]_vars

\* a second pass has run on a check of two bits, bit 1 before bit 0
C23_Witness ==
    /\ self.schedule # "Parallel"
    /\ pc \in {"iterating", "returned"}
    /\ arg.it = 2
    /\ self.serial_schedule_order = <<1, 0>>
    /\ \E i \in 0..(self.pcm.parity_check_matrix.n_rows - 1) :
           Len(nonzero_cols(self.pcm.parity_check_matrix, i)) = 2

(***************************************************************************)
(* C24: a parallel min-sum pass leaves on every edge (i, j) the            *)
(* check-to-bit message whose magnitude is alpha times the least           *)
(* |bit_to_check_msg| of the other edges of row i and which is negative    *)
(* when syndrome[i] plus the number of other edges with a message <= 0 is  *)
(* odd: the value the serial update computes directly from the same        *)
(* messages of the other edges.                                            *)
(***************************************************************************)
\* the edges of row i other than (i, j) whose message is <= 0.0
NonPositiveOthers(d, i, j) ==
    {l \in 0..(d.bit_count - 1) :
        /\ l # j
        /\ <<i, l>> \in DOMAIN d.pcm.bit_to_check_msg
        /\ VLeqZero(d.pcm.bit_to_check_msg[<<i, l>>])}

\* the least of those magnitudes alone, f64::MAX when the row has no other edge
MinOverOthers(before, after, e) ==
    LET magnitudes == OtherMagnitudes(before, after, e) IN
    IF magnitudes = {} THEN FloatMax
    ELSE IF \E m \in magnitudes : IsNan(m.f) THEN NanVal
    ELSE Least(magnitudes)

ParallelMinSumPass ==
    /\ pc = "iterating"
    /\ pc' \in {"iterating", "returned"}
    /\ self.bp_method = "MinimumSum"
    /\ self.schedule = "Parallel"

\* the sign the pass gives the message of edge e
OddSign(e) ==
    (arg.syndrome[e[1] + 1] + Cardinality(NonPositiveOthers(self, e[1], e[2]))) % 2 = 1

\* C24 as stated: the magnitude is alpha times the least |bit_to_check_msg|
\* of the other edges
C24_MinOverOtherEdges ==
    [][ParallelMinSumPass =>
          \A e \in DOMAIN self.pcm.check_to_bit_msg :
              LET alpha == DampingFactor(self.ms_scaling_factor, arg'.it) IN
              self'.pcm.check_to_bit_msg[e]
                  = VScale(IF OddSign(e) THEN RNeg(alpha) ELSE alpha,
                           MinOverOthers(self, self', e))]_vars

\* C24 with the magnitude that is written: alpha times the least of f64::MAX
\* and the |bit_to_check_msg| of the other edges, with the stated sign, which
\* is the value the serial update computes from the same messages
C24_ParallelMinSumAsSerial ==
    [][ParallelMinSumPass =>
          \A e \in DOMAIN self.pcm.check_to_bit_msg :
              LET alpha == DampingFactor(self.ms_scaling_factor, arg'.it)
                  written == self'.pcm.check_to_bit_msg[e] IN
              /\ written = VScale(IF OddSign(e) THEN RNeg(alpha) ELSE alpha,
                                  LeastOther(self, self', e))
              /\ written = SerialMinimumSum(OtherMsgs(self, e[1], e[2]),
                                            arg.syndrome[e[1] + 1], alpha)]_vars

\* a parallel min-sum pass wrote a message on an edge whose row has another
\* edge, of a bit whose log ratio is infinite
C24_Witness ==
    /\ self.bp_method = "MinimumSum"
    /\ self.schedule = "Parallel"
    /\ pc \in {"iterating", "returned"}
    /\ arg.it = 2
    /\ \E e \in DOMAIN self.pcm.check_to_bit_msg :
           /\ Len(nonzero_cols(self.pcm.parity_check_matrix, e[1])) = 2
           /\ VAbs(self.pcm.check_to_bit_msg[e])
                  = VScale(DampingFactor(self.ms_scaling_factor, arg.it), FloatMax)
           /\ \E l \in 0..(self.bit_count - 1) :
                  /\ l # e[2]
                  /\ <<e[1], l>> \in DOMAIN self.pcm.bit_to_check_msg
                  /\ IsInf(self.log_prob_ratios[l + 1])

(***************************************************************************)
(* C25: with One, I, MinusOne, MinusI read as the exponents 0, 1, 2, 3 of  *)
(* i, the product of two phases has the exponent that is the sum of theirs *)
(* modulo 4, for all 16 pairs and in both modules; so the product does not *)
(* depend on the order of its two factors, (a * b) * c = a * (b * c), and  *)
(* One on either side leaves the other factor as it is.                    *)
(***************************************************************************)
PhaseOfExponent(e) == CHOOSE p \in Phases : PhaseExponent(p) = e

ExponentSum(p, q) == PhaseOfExponent((PhaseExponent(p) + PhaseExponent(q)) % 4)

GF2Product(m, d) ==
    [row \in 1..m.n_rows |->
        Cardinality({col \in 0..(m.n_cols - 1) :
                        Contains(m.row_adj[row], col) /\ d[col + 1] = 1}) % 2]

C26_ConvergedSatisfiesSyndrome ==
    (pc = "returned" /\ self.converge) =>
        /\ ret = Decision(self.decoding)
        /\ GF2Product(self.pcm.parity_check_matrix, self.decoding) = arg.syndrome
        /\ self.candidate_syndrome = GF2Product(self.pcm.parity_check_matrix, self.decoding)

\* the second call on a decoder, under the parallel schedule, converged in
\* its second pass with a bit decided 1 on a syndrome that has a 0
C26_Witness ==
    /\ pc = "returned"
    /\ arg.calls = 2
    /\ self.converge
    /\ self.schedule = "Parallel"
    /\ arg.it = 2
    /\ \E i \in 1..self.bit_count : self.decoding[i] = 1
    /\ \E r \in 1..Len(arg.syndrome) : arg.syndrome[r] = 0

(***************************************************************************)
(* C27: in every state of a decoder, from its construction on and through  *)
(* any number of decode calls under any schedule, with the random serial   *)
(* schedule set or not, serial_schedule_order holds every bit index        *)
(* 0..N-1 exactly once, so that a serial pass, which goes through the      *)
(* order, updates every bit exactly once.                                  *)
(***************************************************************************)
IsPermutation(order, n) ==
    /\ Len(order) = n
    /\ \A i \in 0..(n - 1) : Cardinality({k \in 1..Len(order) : order[k] = i}) = 1

C27_OrderIsPermutation == IsPermutation(self.serial_schedule_order, self.bit_count)

\* a second call under SerialRelative has returned with the order 2, 0, 1
C27_Witness ==
    /\ pc = "returned"
    /\ arg.calls = 2
    /\ arg.it >= 1
    /\ self.serial_schedule_order = <<2, 0, 1>>
    /\ self.schedule = "SerialRelative"

(***************************************************************************)
(* C28: a decode call on a syndrome of more bits than the matrix has       *)
(* checks never sets converge: it does not panic, it returns only after    *)
(* pass maximum_iterations, with converge = false and the decision of that *)
(* pass, also when the first bits of the syndrome are H * d.               *)
(***************************************************************************)
C28_LongSyndromeNeverConverges ==
    Len(arg.syndrome) > self.pcm.parity_check_matrix.n_rows =>
        /\ ~self.converge
        /\ pc # "panicked"
        /\ pc = "returned" => /\ arg.it = self.maximum_iterations
                              /\ self.iterations = arg.it
                              /\ ret = Decision(self.decoding)

\* a call has returned without convergence after its last pass, which was not
\* the first, with a decision whose syndrome is the first bits of the syndrome
\* of the call
C28_Witness ==
    /\ pc = "returned"
    /\ Len(arg.syndrome) > self.pcm.parity_check_matrix.n_rows
    /\ arg.it >= 2
    /\ \E i \in 1..self.bit_count : self.decoding[i] = 1
    /\ EqualOnPrefix(GF2Product(self.pcm.parity_check_matrix, self.decoding), arg.syndrome)
    /\ self.candidate_syndrome = GF2Product(self.pcm.parity_check_matrix, self.decoding)

(***************************************************************************)
(* C29: for every pair (H_Z, H_X) that passes the orthogonality check of   *)
(* from_parity_check_matrices, hz.cols() - hz.rank() - hx.rank() does not  *)
(* go below zero on usize, so a pair without logical qubits is rejected by *)
(* the assertion k > 0 and never by an arithmetic overflow (nor accepted   *)
(* with a wrapped k).                                                      *)
(***************************************************************************)
\* the assert_eq! of from_parity_check_matrices passes
PassesOrthogonalityCheck(hz, hx) ==
    LET val == MulMat(hx, Transpose(hz).m) IN
    val.tag # "panic" /\ val = Zeros(hx.n_rows, hz.n_rows)

C29_NoUnderflow ==
    (pc = "from_parity_check_matrices" /\ PassesOrthogonalityCheck(self, arg.m)) =>
        /\ self.n_cols - Rank(self) - Rank(arg.m) >= 0
        /\ ret # Panic("overflow")
        /\ self.n_cols - Rank(self) - Rank(arg.m) = 0 => ret = Panic("no_logical_qubits")

(***************************************************************************)
(* C30: for Pauli operators a, b, c on the same number of qubits, a * b    *)
(* and b * a have the same x and z bits, and the same phase when           *)
(* commutes(a, b), phases that differ by the factor -1 otherwise; the      *)
(* product is associative, phase included: (a * b) * c = a * (b * c); and  *)
(* a * a is the identity with the phase a.phase * a.phase.                 *)
(***************************************************************************)
\* the phase p times -1
MinusPhase(p) == PhaseOfExponent((PhaseExponent(p) + 2) % 4)

AllFalse(bits) == \A i \in 1..Len(bits) : ~bits[i]

\* a * b against b * a
C30_SwappedProduct ==
    pc = "ab" =>
        LET ba == PaulisMul(arg.b, self) IN
        /\ get_x_part(ret) = get_x_part(ba)
        /\ get_z_part(ret) = get_z_part(ba)
        /\ ret.phase = (IF Commutes(self, arg.b).b THEN ba.phase ELSE MinusPhase(ba.phase))

\* a * a
C30_Square ==
    pc = "aa" =>
        /\ AllFalse(get_x_part(ret))
        /\ AllFalse(get_z_part(ret))
        /\ ret.phase = PhaseMul(self.phase, self.phase)

\* (a * b) * c against a * (b * c)
C30_Associative ==
    /\ pc = "ab_c" => ret = PaulisMul(self, PaulisMul(arg.b, arg.c))
    /\ pc = "a_bc" => ret = PaulisMul(PaulisMul(self, arg.b), arg.c)

C30_PauliProductGroup ==
    /\ C30_SwappedProduct
    /\ C30_Square
    /\ C30_Associative

====
